---- MODULE Spec2Model ----
(***************************************************************************)
(* Chart-vision analyzer: the M1 context validator (m1ContextValidator.ts) *)
(* and the pixel pipeline helpers of the image-processing module           *)
(* (estimateOHLCValues, segmentCandlePatterns and its pixel classifier).   *)
(*                                                                         *)
(* Numbers.  The TypeScript code works on IEEE doubles.  Prices are        *)
(* modelled as integers counting ticks of 0.01 (10000 = 100.00), and every *)
(* comparison of a quotient against a decimal threshold is cross-          *)
(* multiplied into an exact integer comparison, e.g.                       *)
(*     ((maxHigh - minLow) / lastClose) * 100 < 0.1                        *)
(* becomes (maxHigh - minLow) * 1000 < lastClose  (lastClose > 0).         *)
(* A division 0/0 (NaN) is modelled by the outcome of the comparison it    *)
(* feeds: every comparison with NaN is false.                              *)
(***************************************************************************)
EXTENDS Integers, Sequences, FiniteSets

VARIABLES
    candles,       \* validateM1Context: the CandleData[] argument
    signal,        \* validateM1Context: 'compra' | 'venda' | 'neutro'
    volumeData,    \* validateM1Context: volumeData?  (defined = FALSE when absent)
    confluences,   \* validateM1Context: confluences? (defined = FALSE when absent)
    validation,    \* the M1ContextValidation returned (Undefined before the call)
    m1pc,          \* "idle", "input" before the call, "done" after it
    ohlcCandles,   \* estimateOHLCValues: the CandleData[] it sorts and fills in place
    ohlcpc,        \* "idle", "input" before the call, "done" after it
    clsPixel,      \* pixel classifier: one pixel <<r, g, b>> of the buffer
    clsLabels,     \* the labels successive classifications of it gave
    segW,          \* segmentCandlePatterns: width
    segH,          \* segmentCandlePatterns: height
    segData,       \* segmentCandlePatterns: data, as pixel index -> <<r, g, b>>
    colorMap,      \* colorMap, pixel index -> code
    visited,       \* visited: Set<number>
    queue,         \* queue of [x, y] of the component being filled
    segScan,       \* idx of the outer scan loop (y * width + x)
    segCur,        \* color, minX, maxX, minY, maxY, area of the component being filled
    segments,      \* segments pushed so far
    segpc,         \* "idle", "input", "scan", "bfs", "done"
    addCount,      \* history: how often each idx was added to visited
    deqCount,      \* history: how often each idx was taken from the queue
    compOf,        \* history: pixel index -> number of the component that took it (0: none)
    compCount,     \* history: components started so far
    emitted,       \* history: the component numbers of the segments pushed
    scene,         \* a bitmap of solid rectangles given to segmentCandlePatterns
    sceneSegments, \* the segments the call returned
    scenepc,       \* "idle", "input" before the call, "done" after it
    qImage,        \* checkImageQuality: the image behind imageUrl and how loading it goes
    qResult,       \* what the promise resolved with
    qpc,           \* "idle", "input" before the call, "done" once resolved
    rImage,        \* detectChartRegion: the image behind imageUrl, how loading goes, the build
    rResult,       \* what the promise resolved with
    rpc,           \* "idle", "input" before the call, "done" once resolved
    extraction,    \* what extractRealCandlesFromImage does: throws, or the candles it yields
    options,       \* analyzeChart: the AnalysisOptions that matter (enableCandleDetection)
    chartResult,   \* analyzeChart: the AnalysisResult, or that the promise rejected
    chartInvoked,  \* analyzeChart: the downstream analyzers called, with the candles given
    chartpc,       \* "idle", "input" before analyzeChart, "done" after it
    detected,      \* detectCandles: the CandleData[] returned
    detectpc,      \* "idle", "input" before detectCandles, "done" after it
    mounted,       \* LiveAnalysis: the component is mounted (videoRef and canvasRef are set)
    isLiveActive,  \* LiveAnalysis: useState isLiveActive
    isAnalyzing,   \* LiveAnalysis: useState isAnalyzing, as last committed
    intervalRef,   \* intervalRef.current: the id of an interval, 0 for null
    intervals,     \* the intervals armed and not cleared, each with the closure it calls
    timeouts,      \* the 1000 ms timeouts of startLiveAnalysis not yet fired
    cameraPending, \* startLiveAnalysis calls still awaiting startCamera()
    runs,          \* captureAndAnalyze calls in flight, each at the await it is suspended on
    liveResults,   \* useState liveResults, as the ids of the runs that produced them
    currentAnalysis, \* useState currentAnalysis: the id of a run, 0 for null
    lastTick,      \* what the latest interval tick did
    startsMade,    \* history: startLiveAnalysis calls so far
    runsMade,      \* history: captureAndAnalyze calls that got past the guard
    lastEnd,       \* history: the captureAndAnalyze call that returned last, and by which path
    pImage,        \* processImage: imageUrl, the image behind it and how each step goes
    pResult,       \* processImage: how the promise settled
    ppc,           \* "idle", "input" before the call, "done" once settled
    eW,            \* enhanceEdges: width
    eH,            \* enhanceEdges: height
    eData,         \* enhanceEdges: the data buffer, as pixel index -> <<r, g, b, a>>
    eInput,        \* history: the buffer as it was handed to the first call
    eOutputs,      \* the buffers returned by the calls made so far
    epc,           \* "idle", "input" before the first call, "once", "twice"
    lImage,        \* detectSupportResistanceLines: width, height and the rows of the bitmap
    lLines,        \* the lines returned
    lpc,           \* "idle", "input" before the call, "done" after it
    boxCase,       \* analyzeCandleSegment: box size and the pixels of each class in it
    boxResult,     \* the shape returned (NoCandle for null)
    boxpc,         \* "idle", "input" before the call, "done" after it
    callArgs,      \* repeated validateM1Context calls: the caller's argument objects
    callLog,       \* per call made: the arguments given, their contents at return, the result
    callpc         \* "idle", "input" before a call, "returned" after it

m1vars == <<candles, signal, volumeData, confluences, validation, m1pc>>

ohlcvars == <<ohlcCandles, ohlcpc>>

clsvars == <<clsPixel, clsLabels>>

segvars == <<segW, segH, segData, colorMap, visited, queue, segScan, segCur, segments,
             segpc, addCount, deqCount, compOf, compCount, emitted>>

scenevars == <<scene, sceneSegments, scenepc>>

qvars == <<qImage, qResult, qpc>>

rvars == <<rImage, rResult, rpc>>

chartvars == <<extraction, options, chartResult, chartInvoked, chartpc, detected, detectpc>>

livevars == <<mounted, isLiveActive, isAnalyzing, intervalRef, intervals, timeouts,
              cameraPending, runs, liveResults, currentAnalysis, lastTick, startsMade, runsMade,
              lastEnd>>

pvars == <<pImage, pResult, ppc>>

evars == <<eW, eH, eData, eInput, eOutputs, epc>>

lvars == <<lImage, lLines, lpc>>

boxvars == <<boxCase, boxResult, boxpc>>

callvars == <<callArgs, callLog, callpc>>

latevars == <<scenevars, qvars, rvars, chartvars, livevars, pvars, evars, lvars, boxvars, callvars>>

vars == <<m1vars, ohlcvars, clsvars, segvars, latevars>>

Undefined == "undefined"

Abs(x) == IF x < 0 THEN -x ELSE x

MaxOf(S) == CHOOSE m \in S : \A x \in S : x <= m

MinOf(S) == CHOOSE m \in S : \A x \in S : m <= x

\* Array.prototype.slice(-n): the last n elements (all of them when fewer).
SliceLast(s, n) == IF Len(s) <= n THEN s ELSE SubSeq(s, Len(s) - n + 1, Len(s))

(***************************************************************************)
(* m1ContextValidator.ts                                                   *)
(***************************************************************************)

\* candles.length < 20
MinCandles == 20

Candle(o, h, l, c) == [open |-> o, high |-> h, low |-> l, close |-> c]

\* detectTrend: price change first->last close and high/low range, in percent.
detectTrend(cs) ==
    LET firstClose == cs[1].close
        lastClose == cs[Len(cs)].close
        \* priceChange = ((lastClose - firstClose) / firstClose) * 100
        \* range = ((maxHigh - minLow) / lastClose) * 100
        maxHigh == MaxOf({cs[i].high : i \in 1..Len(cs)})
        minLow == MinOf({cs[i].low : i \in 1..Len(cs)})
    IN  IF (maxHigh - minLow) * 1000 < lastClose          \* range < 0.1
           \/ Abs(lastClose - firstClose) * 2000 < firstClose   \* |priceChange| < 0.05
        THEN "lateral"
        ELSE IF (lastClose - firstClose) * 2000 > firstClose    \* priceChange > 0.05
             THEN "alta"
             ELSE "baixa"

\* detectPullback: correction then resumption on the last three closes.
detectPullback(cs, trendDirection) ==
    IF Len(cs) < 3 \/ trendDirection = "lateral"
    THEN FALSE
    ELSE LET recent3 == SliceLast(cs, 3)
         IN  IF trendDirection = "alta"
             THEN recent3[1].close > recent3[2].close /\ recent3[3].close > recent3[2].close
             ELSE recent3[1].close < recent3[2].close /\ recent3[3].close < recent3[2].close

\* body / totalRange >= 0.6 ; 0/0 is NaN (false), x/0 with x > 0 is Infinity (true)
BodyRatioAtLeast60(body, totalRange) ==
    IF totalRange > 0 THEN 10 * body >= 6 * totalRange
    ELSE IF totalRange = 0 THEN body > 0
    ELSE FALSE

\* checkStrongCandleConfirmation: last candle has body >= 60% of range and
\* points the way of the signal.
checkStrongCandleConfirmation(cs, sig) ==
    IF Len(cs) = 0
    THEN FALSE
    ELSE LET lastCandle == cs[Len(cs)]
             body == Abs(lastCandle.close - lastCandle.open)
             totalRange == lastCandle.high - lastCandle.low
             isStrongCandle == BodyRatioAtLeast60(body, totalRange)
             candleDirection == IF lastCandle.close > lastCandle.open THEN "compra" ELSE "venda"
         IN  isStrongCandle /\ candleDirection = sig

\* the three comparisons taken inclusively
IsIndecisionCandle_Inclusive(candle) ==
    LET body == Abs(candle.close - candle.open)
        upperWick == candle.high - (IF candle.open > candle.close THEN candle.open ELSE candle.close)
        lowerWick == (IF candle.open < candle.close THEN candle.open ELSE candle.close) - candle.low
        totalRange == candle.high - candle.low
    IN  /\ 10 * upperWick >= 8 * body
        /\ 10 * lowerWick >= 8 * body
        /\ 10 * body <= 4 * totalRange

\* one candle of checkIndecisionCandles' loop
IsIndecisionCandle(candle) ==
    LET body == Abs(candle.close - candle.open)
        upperWick == candle.high - (IF candle.open > candle.close THEN candle.open ELSE candle.close)
        lowerWick == (IF candle.open < candle.close THEN candle.open ELSE candle.close) - candle.low
        totalRange == candle.high - candle.low
    IN  /\ 10 * upperWick > 8 * body        \* upperWick > body * 0.8
        /\ 10 * lowerWick > 8 * body        \* lowerWick > body * 0.8
        /\ 10 * body < 4 * totalRange       \* body < totalRange * 0.4

\* checkIndecisionCandles: at least two indecision candles.
checkIndecisionCandles(cs) ==
    IF Len(cs) = 0
    THEN FALSE
    ELSE Cardinality({i \in 1..Len(cs) : IsIndecisionCandle(cs[i])}) >= 2

\* checkSupportResistanceLevel: a strong level of the signal's kind within 0.1%.
checkSupportResistanceLevel(cs, sig, conf) ==
    IF ~conf.defined
    THEN FALSE
    ELSE LET currentPrice == cs[Len(cs)].close
             levels == conf.supportResistance
             \* |(level.price - currentPrice) / currentPrice| * 100 <= 0.1
             nearby == {i \in 1..Len(levels) :
                           Abs(levels[i].price - currentPrice) * 1000 <= Abs(currentPrice)}
         IN  \E i \in nearby :
                 \/ sig = "compra" /\ levels[i].type = "support" /\ levels[i].strength = "forte"
                 \/ sig = "venda" /\ levels[i].type = "resistance" /\ levels[i].strength = "forte"

\* checkVolumeConfirmation: abnormal and increasing volume.
checkVolumeConfirmation(vol, sig) ==
    IF ~vol.defined THEN FALSE ELSE vol.abnormal /\ vol.trend = "increasing"

\* the reduce of checkSpaceToRun: the first level at the least distance
RECURSIVE NearestLevel(_, _, _)
NearestLevel(levels, currentPrice, nearest) ==
    IF levels = <<>>
    THEN nearest
    ELSE LET current == Head(levels)
         IN  NearestLevel(Tail(levels), currentPrice,
                 IF Abs(current.price - currentPrice) < Abs(nearest.price - currentPrice)
                 THEN current ELSE nearest)

\* checkSpaceToRun: the nearest opposing level is at least 0.15% away.
checkSpaceToRun(cs, sig, conf) ==
    LET currentPrice == cs[Len(cs)].close
    IN  IF ~conf.defined
        THEN TRUE
        ELSE LET Relevant(level) ==
                     IF sig = "compra"
                     THEN level.type = "resistance" /\ level.price > currentPrice
                     ELSE level.type = "support" /\ level.price < currentPrice
                 relevantLevels == SelectSeq(conf.supportResistance, Relevant)
             IN  IF Len(relevantLevels) = 0
                 THEN TRUE
                 ELSE LET nearestLevel == NearestLevel(Tail(relevantLevels), currentPrice,
                                                       Head(relevantLevels))
                      \* |(nearest.price - currentPrice) / currentPrice| * 100 >= 0.15
                      IN  Abs(nearestLevel.price - currentPrice) * 2000 >= 3 * Abs(currentPrice)

\* checkTrendSignalAlignment
checkTrendSignalAlignment(trendDirection, sig) ==
    IF trendDirection = "lateral"
    THEN FALSE
    ELSE \/ trendDirection = "alta" /\ sig = "compra"
         \/ trendDirection = "baixa" /\ sig = "venda"

\* off by one: 19 candles pass the length check
EarlyReject_OffByOne(cs, sig) == Len(cs) < MinCandles - 1 \/ sig = "neutro"

\* line 27: insufficient data or neutral signal
EarlyReject(cs, sig) == Len(cs) < MinCandles \/ sig = "neutro"

\* the trend taken over every candle supplied
TrendWindow_WholeList(cs) == cs

\* line 47: candles.slice(-10)
TrendWindow(cs) == SliceLast(cs, 10)

\* a sideways market is scored like any other
RejectsFlat_Never(trendDirection) == FALSE

\* line 50: no entry in a sideways market
RejectsFlat(trendDirection) == trendDirection = "lateral"

\* the record both early returns build (lines 28-40 and 52-64)
RejectedValidation(reasons) ==
    [ isValidForEntry |-> FALSE,
      rejectionReasons |-> reasons,
      contextScore |-> 0,
      trendDirection |-> "lateral",
      pullbackDetected |-> FALSE,
      strongCandleConfirmation |-> FALSE,
      supportResistanceLevel |-> FALSE,
      volumeConfirmation |-> FALSE,
      spaceToRun |-> FALSE,
      indecisionCandles |-> TRUE,
      recommendation |-> "skip" ]

\* the headroom penalty applied when there IS room
AdditiveScore_SpaceInverted(pullback, strong, indecision, sr, vol, space, aligned) ==
    25
    + (IF pullback THEN 20 ELSE 0)
    + (IF strong THEN 25 ELSE 0)
    + (IF indecision THEN -30 ELSE 0)
    + (IF sr THEN 20 ELSE 0)
    + (IF vol THEN 15 ELSE 0)
    + (IF space THEN -25 ELSE 0)
    + (IF aligned THEN 10 ELSE -20)

\* lines 67-116: the additive score before clamping
AdditiveScore(pullback, strong, indecision, sr, vol, space, aligned) ==
    25
    + (IF pullback THEN 20 ELSE 0)
    + (IF strong THEN 25 ELSE 0)
    + (IF indecision THEN -30 ELSE 0)
    + (IF sr THEN 20 ELSE 0)
    + (IF vol THEN 15 ELSE 0)
    + (IF space THEN 0 ELSE -25)
    + (IF aligned THEN 10 ELSE -20)

\* the alignment reason pushed before the others
Reasons_AlignmentFirst(strong, indecision, space, aligned) ==
    (IF aligned THEN <<>> ELSE <<"Sinal contra a tendencia principal">>)
    \o (IF strong THEN <<>> ELSE <<"Candle de confirmacao fraco ou ausente">>)
    \o (IF indecision THEN <<"Candles de indecisao detectados (pavios dos dois lados)">> ELSE <<>>)
    \o (IF space THEN <<>> ELSE <<"Sem espaco suficiente para o preco correr">>)

\* lines 75-116: the reasons pushed, in program order
Reasons(strong, indecision, space, aligned) ==
    (IF strong THEN <<>> ELSE <<"Candle de confirmacao fraco ou ausente">>)
    \o (IF indecision THEN <<"Candles de indecisao detectados (pavios dos dois lados)">> ELSE <<>>)
    \o (IF space THEN <<>> ELSE <<"Sem espaco suficiente para o preco correr">>)
    \o (IF aligned THEN <<>> ELSE <<"Sinal contra a tendencia principal">>)

\* Enter decided on the score alone
Recommendation_IgnoresReasons(contextScore, nReasons) ==
    IF contextScore >= 70 THEN "enter"
    ELSE IF contextScore >= 50 /\ nReasons <= 1 THEN "wait"
    ELSE "skip"

\* strict comparisons in place of >=
Recommendation_Strict(contextScore, nReasons) ==
    IF contextScore > 70 /\ nReasons = 0 THEN "enter"
    ELSE IF contextScore > 50 /\ nReasons <= 1 THEN "wait"
    ELSE "skip"

\* lines 119-125: final recommendation, decided on the unclamped score
Recommendation(contextScore, nReasons) ==
    IF contextScore >= 70 /\ nReasons = 0 THEN "enter"
    ELSE IF contextScore >= 50 /\ nReasons <= 1 THEN "wait"
    ELSE "skip"

\* only the lower clamp
ClampScore_NoCap(contextScore) == IF contextScore > 0 THEN contextScore ELSE 0

\* line 132: Math.max(0, Math.min(100, contextScore))
ClampScore(contextScore) ==
    LET capped == IF contextScore < 100 THEN contextScore ELSE 100
    IN  IF capped > 0 THEN capped ELSE 0

\* the unclamped contextScore of a full evaluation (lines 67-116)
RawScore(cs, sig, vol, conf) ==
    LET trendDirection == detectTrend(TrendWindow(cs))
    IN  AdditiveScore(detectPullback(SliceLast(cs, 5), trendDirection),
                      checkStrongCandleConfirmation(SliceLast(cs, 3), sig),
                      checkIndecisionCandles(SliceLast(cs, 3)),
                      checkSupportResistanceLevel(cs, sig, conf),
                      checkVolumeConfirmation(vol, sig),
                      checkSpaceToRun(cs, sig, conf),
                      checkTrendSignalAlignment(trendDirection, sig))

validateM1Context(cs, sig, vol, conf) ==
    IF EarlyReject(cs, sig)
    THEN RejectedValidation(<<"Dados insuficientes ou sinal neutro">>)
    ELSE
    LET trendDirection == detectTrend(TrendWindow(cs))
    IN  IF RejectsFlat(trendDirection)
        THEN RejectedValidation(<<"Preco em lateralizacao - mercado sem direcao">>)
        ELSE
        LET pullbackDetected == detectPullback(SliceLast(cs, 5), trendDirection)
            strongCandleConfirmation == checkStrongCandleConfirmation(SliceLast(cs, 3), sig)
            indecisionCandles == checkIndecisionCandles(SliceLast(cs, 3))
            supportResistanceLevel == checkSupportResistanceLevel(cs, sig, conf)
            volumeConfirmation == checkVolumeConfirmation(vol, sig)
            spaceToRun == checkSpaceToRun(cs, sig, conf)
            trendSignalAlignment == checkTrendSignalAlignment(trendDirection, sig)
            contextScore == AdditiveScore(pullbackDetected, strongCandleConfirmation,
                                          indecisionCandles, supportResistanceLevel,
                                          volumeConfirmation, spaceToRun, trendSignalAlignment)
            rejectionReasons == Reasons(strongCandleConfirmation, indecisionCandles,
                                        spaceToRun, trendSignalAlignment)
            recommendation == Recommendation(contextScore, Len(rejectionReasons))
        IN  [ isValidForEntry |-> recommendation = "enter",
              rejectionReasons |-> rejectionReasons,
              contextScore |-> ClampScore(contextScore),
              trendDirection |-> trendDirection,
              pullbackDetected |-> pullbackDetected,
              strongCandleConfirmation |-> strongCandleConfirmation,
              supportResistanceLevel |-> supportResistanceLevel,
              volumeConfirmation |-> volumeConfirmation,
              spaceToRun |-> spaceToRun,
              indecisionCandles |-> indecisionCandles,
              recommendation |-> recommendation ]

(***************************************************************************)
(* Inputs of validateM1Context.  Prices in ticks of 0.01 around 100.00, so *)
(* that 0.05% is 5 ticks and 0.1% is 10 ticks.  All candles satisfy the    *)
(* OHLC integrity check of detectCandles (positive, high >= max(open,      *)
(* close), low <= min(open, close)).                                       *)
(***************************************************************************)
Doji == Candle(10000, 10000, 10000, 10000)
SmallBull == Candle(10000, 10003, 10000, 10003)
StrongBull == Candle(10000, 10020, 10000, 10020)
StrongBear == Candle(10000, 10000, 9980, 9980)
SpinUp == Candle(10009, 10020, 10000, 10011)
SpinDown == Candle(9991, 10000, 9980, 9989)
WeakBull == Candle(10000, 10005, 9990, 10005)
WideDoji == Candle(10001, 10005, 9997, 10001)
Outlier == Candle(9500, 9520, 9480, 9500)

PreCandles == {Doji, Outlier}
FirstCandles == {Doji, StrongBull, StrongBear}
MidCandles == {Doji, WideDoji}
C1Candles == {Doji, StrongBull, StrongBear, SpinUp, SpinDown}
C2Candles == {Doji, SpinUp, SpinDown}
C3Candles == {Doji, SmallBull, StrongBull, StrongBear, SpinUp, SpinDown, WeakBull}

\* how many candles beyond the minimum the longest input has
ExtraCandles == 5

Lengths == {MinCandles - 1, MinCandles, MinCandles + ExtraCandles}

\* n candles: pre ... pre, first, mid x 6, c1, c2, c3 (the last ten are the trend window)
MakeCandles(n, pre, first, mid, c1, c2, c3) ==
    [i \in 1..n |->
        IF i <= n - 10 THEN pre
        ELSE IF i = n - 9 THEN first
        ELSE IF i <= n - 3 THEN mid
        ELSE IF i = n - 2 THEN c1
        ELSE IF i = n - 1 THEN c2
        ELSE c3]

Level(p, t, s) == [price |-> p, type |-> t, strength |-> s]

Signals == {"compra", "venda", "neutro"}

VolumeInputs ==
    { [defined |-> FALSE, abnormal |-> FALSE, trend |-> "none"],
      [defined |-> TRUE, abnormal |-> TRUE, trend |-> "increasing"],
      [defined |-> TRUE, abnormal |-> TRUE, trend |-> "decreasing"] }

Confluences(levels) == [defined |-> TRUE, supportResistance |-> levels]

ConfluenceInputs ==
    { [defined |-> FALSE, supportResistance |-> <<>>],
      Confluences(<<>>),
      Confluences(<<Level(10012, "support", "forte"), Level(10040, "resistance", "fraco")>>),
      Confluences(<<Level(10060, "resistance", "fraco"), Level(10025, "resistance", "forte")>>),
      Confluences(<<Level(9988, "resistance", "forte"), Level(9900, "support", "forte")>>) }

M1Init ==
    /\ \E n \in Lengths, pre \in PreCandles, first \in FirstCandles, mid \in MidCandles,
          c1 \in C1Candles, c2 \in C2Candles, c3 \in C3Candles :
           candles = MakeCandles(n, pre, first, mid, c1, c2, c3)
    /\ signal \in Signals
    /\ volumeData \in VolumeInputs
    /\ confluences \in ConfluenceInputs
    /\ validation = Undefined
    /\ m1pc = "input"

\* one call of validateM1Context on the inputs
Validate ==
    /\ m1pc = "input"
    /\ validation' = validateM1Context(candles, signal, volumeData, confluences)
    /\ m1pc' = "done"
    /\ UNCHANGED <<candles, signal, volumeData, confluences>>

M1Next == Validate /\ UNCHANGED <<ohlcvars, clsvars, segvars, latevars>>

\* no validation in progress
M1Idle ==
    /\ candles = <<>>
    /\ signal = "neutro"
    /\ volumeData = [defined |-> FALSE, abnormal |-> FALSE, trend |-> "none"]
    /\ confluences = [defined |-> FALSE, supportResistance |-> <<>>]
    /\ validation = Undefined
    /\ m1pc = "idle"

(***************************************************************************)
(* estimateOHLCValues (image processing module)                            *)
(*                                                                         *)
(* Vertical pixel coordinates are kept doubled (y2 = 2 * position.y), so   *)
(* that top = position.y - height / 2 stays integral: top2 = y2 - height.  *)
(* A price is the quotient num / den of two integers, all prices of one    *)
(* call sharing the denominator range2 = maxY2 - minY2 (> 0); den = 0      *)
(* stands for NaN, the result of 0 / 0 when the range is 0.  Candle        *)
(* centres lie inside the image (y2 >= 1), so every bottom edge is above   *)
(* the initial maxY = Number.MIN_VALUE and maxY is the largest bottom.     *)
(* The candles given to it are the shapes analyzeCandleSegment accepts:    *)
(* their height is y2 - y1 + 1 of a segment with y2 > y1, so at least 2.   *)
(***************************************************************************)

\* basePrice and priceRange
BasePrice == 100

PriceRange == 20

Price(n, d) == [num |-> n, den |-> d]

IsNaN(p) == p.den = 0

\* a >= b on doubles: false when either side is NaN
PriceGeq(a, b) == ~IsNaN(a) /\ ~IsNaN(b) /\ a.num * b.den >= b.num * a.den

\* a <= b on doubles
PriceLeq(a, b) == PriceGeq(b, a)

\* Math.max(a, b): NaN when either side is NaN
PriceMax(a, b) ==
    IF IsNaN(a) THEN a ELSE IF IsNaN(b) THEN b ELSE IF PriceGeq(a, b) THEN a ELSE b

\* Math.min(a, b)
PriceMin(a, b) ==
    IF IsNaN(a) THEN a ELSE IF IsNaN(b) THEN b ELSE IF PriceGeq(a, b) THEN b ELSE a

\* candles.sort((a, b) => a.position.x - b.position.x): stable, ascending x
RECURSIVE InsertByX(_, _)
InsertByX(sorted, c) ==
    IF sorted = <<>> THEN <<c>>
    ELSE IF sorted[Len(sorted)].x <= c.x THEN Append(sorted, c)
    ELSE Append(InsertByX(SubSeq(sorted, 1, Len(sorted) - 1), c), sorted[Len(sorted)])

RECURSIVE SortByX(_)
SortByX(cs) ==
    IF cs = <<>> THEN <<>>
    ELSE InsertByX(SortByX(SubSeq(cs, 1, Len(cs) - 1)), cs[Len(cs)])

CandleTop2(c) == c.y2 - c.height

CandleBottom2(c) == c.y2 + c.height

\* the fraction taken without the inversion 1 - ...
EdgePrice_NotInverted(edge2, minY2, range2) ==
    IF range2 = 0
    THEN Price(0, 0)
    ELSE Price(BasePrice * range2 + (edge2 - minY2) * PriceRange, range2)

\* basePrice + (1 - (edge - minY) / range) * priceRange, over the denominator range
EdgePrice(edge2, minY2, range2) ==
    IF range2 = 0
    THEN Price(0, 0)
    ELSE Price(BasePrice * range2 + (range2 - (edge2 - minY2)) * PriceRange, range2)

\* high and low copied from close and open, as if every candle were green
EstimateOne_NoMaxMin(c, minY2, range2) ==
    LET highPrice == EdgePrice(CandleTop2(c), minY2, range2)
        lowPrice == EdgePrice(CandleBottom2(c), minY2, range2)
        open == IF c.color = "verde" THEN lowPrice ELSE highPrice
        close == IF c.color = "verde" THEN highPrice ELSE lowPrice
    IN  [c EXCEPT !.open = open, !.close = close, !.high = close, !.low = open]

\* the body of the second loop: open/close by colour, then high and low
EstimateOne(c, minY2, range2) ==
    LET highPrice == EdgePrice(CandleTop2(c), minY2, range2)
        lowPrice == EdgePrice(CandleBottom2(c), minY2, range2)
        open == IF c.color = "verde" THEN lowPrice ELSE highPrice
        close == IF c.color = "verde" THEN highPrice ELSE lowPrice
    IN  [c EXCEPT !.open = open, !.close = close,
                  !.high = PriceMax(open, close), !.low = PriceMin(open, close)]

estimateOHLCValues(cs) ==
    IF cs = <<>>
    THEN cs
    ELSE LET sorted == SortByX(cs)
             minY2 == MinOf({CandleTop2(sorted[i]) : i \in 1..Len(sorted)})
             maxY2 == MaxOf({CandleBottom2(sorted[i]) : i \in 1..Len(sorted)})
             range2 == maxY2 - minY2
         IN  [i \in 1..Len(sorted) |-> EstimateOne(sorted[i], minY2, range2)]

\* longest candle list given to estimateOHLCValues
MaxOHLCCandles == 3

\* candle shapes: x, doubled centre y, pixel height, colour; prices not yet set
ShapeXs == {1, 2}

ShapeY2s == {10, 14}

ShapeHeights == {2, 3, 6}

OHLCShapes ==
    { [x |-> x, y2 |-> y, height |-> h, color |-> col,
       open |-> Price(0, 1), high |-> Price(0, 1), low |-> Price(0, 1), close |-> Price(0, 1)] :
        x \in ShapeXs, y \in ShapeY2s, h \in ShapeHeights, col \in {"verde", "vermelho"} }

OHLCInit ==
    /\ \E n \in 0..MaxOHLCCandles : ohlcCandles \in [1..n -> OHLCShapes]
    /\ ohlcpc = "input"

OHLCIdle ==
    /\ ohlcCandles = <<>>
    /\ ohlcpc = "idle"

\* one call of estimateOHLCValues
EstimateOHLC ==
    /\ ohlcpc = "input"
    /\ ohlcCandles' = estimateOHLCValues(ohlcCandles)
    /\ ohlcpc' = "done"

OHLCNext == EstimateOHLC /\ UNCHANGED <<m1vars, clsvars, segvars, latevars>>

(***************************************************************************)
(* The pixel classifier of segmentCandlePatterns (colorMap codes).         *)
(* Channels are bytes; on bytes g > 1.2 * r is 5 * g > 6 * r exactly (the  *)
(* double 1.2 * r is the integer 6r/5 whenever that is an integer), and    *)
(* (r + g + b) / 3 < 30 is r + g + b < 90, > 220 is r + g + b > 660.       *)
(***************************************************************************)
None == 0

Verde == 1

Vermelho == 2

Preto == 3

Branco == 4

\* the luminance test tried first
classifyPixel_LuminanceFirst(r, g, b) ==
    IF r + g + b < 90 THEN Preto
    ELSE IF r + g + b > 660 THEN Branco
    ELSE IF 5 * g > 6 * r /\ 5 * g > 6 * b /\ g > 70 THEN Verde
    ELSE IF 5 * r > 6 * g /\ 5 * r > 6 * b /\ r > 70 THEN Vermelho
    ELSE None

\* the if / else-if chain that fills colorMap[y * width + x]
classifyPixel(r, g, b) ==
    IF 5 * g > 6 * r /\ 5 * g > 6 * b /\ g > 70 THEN Verde
    ELSE IF 5 * r > 6 * g /\ 5 * r > 6 * b /\ r > 70 THEN Vermelho
    ELSE IF r + g + b < 90 THEN Preto        \* luminance < 30
    ELSE IF r + g + b > 660 THEN Branco      \* luminance > 220
    ELSE None

\* channel values on both sides of every threshold
Channels == {0, 29, 30, 70, 71, 100, 120, 121, 212, 213, 220, 221, 255}

\* how often the same pixel is classified
MaxPasses == 2

ClassInit ==
    /\ clsPixel \in Channels \X Channels \X Channels
    /\ clsLabels = <<>>

ClassIdle ==
    /\ clsPixel = <<0, 0, 0>>
    /\ clsLabels = <<>>

\* one classification pass: reads the pixel, writes only the label
ClassifyPass ==
    /\ Len(clsLabels) < MaxPasses
    /\ clsLabels' = Append(clsLabels, classifyPixel(clsPixel[1], clsPixel[2], clsPixel[3]))
    /\ UNCHANGED clsPixel

ClassNext == ClassifyPass /\ UNCHANGED <<m1vars, ohlcvars, segvars, latevars>>

(***************************************************************************)
(* segmentCandlePatterns: colour map, then 8-connected flood fill in       *)
(* raster order.  Pixel indices and coordinates are 0-based as in the      *)
(* code.  One action per iteration of the outer scan loop and of the       *)
(* while loop over the queue.                                              *)
(***************************************************************************)

\* area >= 5 && area <= 2000
MinArea == 5

MaxArea == 2000

\* the neighbours of [cx, cy] in the order of the array literal
NeighborOffsets ==
    << <<-1, 0>>, <<1, 0>>, <<0, -1>>, <<0, 1>>,
       <<-1, -1>>, <<1, -1>>, <<-1, 1>>, <<1, 1>> >>

\* a neighbour is queued whatever was visited before
ShouldPush_IgnoreVisited(nidx, color, cm, vis) == cm[nidx] = color

\* colorMap[nidx] === color && !visited.has(nidx)
ShouldPush(nidx, color, cm, vis) == cm[nidx] = color /\ nidx \notin vis

\* the for loop over neighbors; st carries queue, visited, addCount, compOf
RECURSIVE VisitNeighbors(_, _, _, _, _, _, _, _, _)
VisitNeighbors(k, cx, cy, color, w, h, cm, comp, st) ==
    IF k > Len(NeighborOffsets)
    THEN st
    ELSE LET nx == cx + NeighborOffsets[k][1]
             ny == cy + NeighborOffsets[k][2]
             nidx == ny * w + nx
         IN  IF nx >= 0 /\ nx < w /\ ny >= 0 /\ ny < h /\ ShouldPush(nidx, color, cm, st.visited)
             THEN VisitNeighbors(k + 1, cx, cy, color, w, h, cm, comp,
                      [ queue |-> Append(st.queue, <<nx, ny>>),
                        visited |-> st.visited \cup {nidx},
                        addCount |-> [st.addCount EXCEPT ![nidx] = @ + 1],
                        compOf |-> [st.compOf EXCEPT ![nidx] = comp] ])
             ELSE VisitNeighbors(k + 1, cx, cy, color, w, h, cm, comp, st)

\* the lower limit taken strictly
KeepsSegment_Strict(area, minX, maxX, minY, maxY) ==
    area > MinArea /\ area <= MaxArea /\ (maxX - minX) > 0 /\ (maxY - minY) > 0

\* the filter before segments.push
KeepsSegment(area, minX, maxX, minY, maxY) ==
    area >= MinArea /\ area <= MaxArea /\ (maxX - minX) > 0 /\ (maxY - minY) > 0

\* the first pair of loops: classify every pixel into colorMap
SegBuildColorMap ==
    /\ segpc = "input"
    /\ colorMap' = [i \in 0..(segW * segH - 1) |->
                        classifyPixel(segData[i][1], segData[i][2], segData[i][3])]
    /\ segScan' = 0
    /\ segpc' = "scan"
    /\ UNCHANGED <<segW, segH, segData, visited, queue, segCur, segments,
                   addCount, deqCount, compOf, compCount, emitted>>

\* scan loop: background or already visited, continue
SegSkip ==
    /\ segpc = "scan"
    /\ segScan < segW * segH
    /\ (colorMap[segScan] = None \/ segScan \in visited)
    /\ segScan' = segScan + 1
    /\ UNCHANGED <<segW, segH, segData, colorMap, visited, queue, segCur, segments,
                   segpc, addCount, deqCount, compOf, compCount, emitted>>

\* scan loop: a new component starts at this pixel
SegStart ==
    /\ segpc = "scan"
    /\ segScan < segW * segH
    /\ ~(colorMap[segScan] = None \/ segScan \in visited)
    /\ LET x == segScan % segW
           y == segScan \div segW
       IN  /\ segCur' = [color |-> colorMap[segScan], minX |-> x, maxX |-> x,
                         minY |-> y, maxY |-> y, area |-> 0]
           /\ queue' = << <<x, y>> >>
    /\ visited' = visited \cup {segScan}
    /\ addCount' = [addCount EXCEPT ![segScan] = @ + 1]
    /\ compCount' = compCount + 1
    /\ compOf' = [compOf EXCEPT ![segScan] = compCount + 1]
    /\ segpc' = "bfs"
    /\ UNCHANGED <<segW, segH, segData, colorMap, segScan, segments, deqCount, emitted>>

\* one iteration of while (queue.length > 0)
SegDequeue ==
    /\ segpc = "bfs"
    /\ queue # <<>>
    /\ LET cx == Head(queue)[1]
           cy == Head(queue)[2]
           st == VisitNeighbors(1, cx, cy, segCur.color, segW, segH, colorMap, compCount,
                                [ queue |-> Tail(queue), visited |-> visited,
                                  addCount |-> addCount, compOf |-> compOf ])
       IN  /\ segCur' = [ color |-> segCur.color,
                          minX |-> IF cx < segCur.minX THEN cx ELSE segCur.minX,
                          maxX |-> IF cx > segCur.maxX THEN cx ELSE segCur.maxX,
                          minY |-> IF cy < segCur.minY THEN cy ELSE segCur.minY,
                          maxY |-> IF cy > segCur.maxY THEN cy ELSE segCur.maxY,
                          area |-> segCur.area + 1 ]
           /\ deqCount' = [deqCount EXCEPT ![cy * segW + cx] = @ + 1]
           /\ queue' = st.queue
           /\ visited' = st.visited
           /\ addCount' = st.addCount
           /\ compOf' = st.compOf
    /\ UNCHANGED <<segW, segH, segData, colorMap, segScan, segments, segpc, compCount, emitted>>

\* the queue ran empty: keep or drop the component, go on scanning
SegFilter ==
    /\ segpc = "bfs"
    /\ queue = <<>>
    /\ IF KeepsSegment(segCur.area, segCur.minX, segCur.maxX, segCur.minY, segCur.maxY)
       THEN /\ segments' = Append(segments, [x1 |-> segCur.minX, y1 |-> segCur.minY,
                                             x2 |-> segCur.maxX, y2 |-> segCur.maxY,
                                             area |-> segCur.area])
            /\ emitted' = Append(emitted, compCount)
       ELSE UNCHANGED <<segments, emitted>>
    /\ segScan' = segScan + 1
    /\ segpc' = "scan"
    /\ UNCHANGED <<segW, segH, segData, colorMap, visited, queue, segCur,
                   addCount, deqCount, compOf, compCount>>

\* return segments
SegReturn ==
    /\ segpc = "scan"
    /\ segScan = segW * segH
    /\ segpc' = "done"
    /\ UNCHANGED <<segW, segH, segData, colorMap, visited, queue, segScan, segCur, segments,
                   addCount, deqCount, compOf, compCount, emitted>>

SegNext ==
    \/ SegBuildColorMap /\ UNCHANGED <<m1vars, ohlcvars, clsvars, latevars>>
    \/ SegSkip /\ UNCHANGED <<m1vars, ohlcvars, clsvars, latevars>>
    \/ SegStart /\ UNCHANGED <<m1vars, ohlcvars, clsvars, latevars>>
    \/ SegDequeue /\ UNCHANGED <<m1vars, ohlcvars, clsvars, latevars>>
    \/ SegFilter /\ UNCHANGED <<m1vars, ohlcvars, clsvars, latevars>>
    \/ SegReturn /\ UNCHANGED <<m1vars, ohlcvars, clsvars, latevars>>

\* pixel colours: background grey, candle green, candle red, black
Gray == <<128, 128, 128>>

Green == <<0, 200, 0>>

Red == <<200, 0, 0>>

Black == <<0, 0, 0>>

\* every image of at most this many pixels over grey, green and black
MaxCellsMixed == 6

\* every image of at most this many pixels over grey and red
MaxCellsMono == 9

\* one-colour images around the upper area limit: 2000 and 2001 pixels
LargeShapes == {<<2, 1000>>, <<3, 667>>}

SegStartState(w, h, data) ==
    /\ segW = w
    /\ segH = h
    /\ segData = data
    /\ colorMap = [i \in 0..(w * h - 1) |-> None]
    /\ visited = {}
    /\ queue = <<>>
    /\ segScan = 0
    /\ segCur = [color |-> None, minX |-> 0, maxX |-> 0, minY |-> 0, maxY |-> 0, area |-> 0]
    /\ segments = <<>>
    /\ addCount = [i \in 0..(w * h - 1) |-> 0]
    /\ deqCount = [i \in 0..(w * h - 1) |-> 0]
    /\ compOf = [i \in 0..(w * h - 1) |-> 0]
    /\ compCount = 0
    /\ emitted = <<>>

SegInit ==
    /\ segpc = "input"
    /\ \/ \E w \in 1..MaxCellsMixed, h \in 1..MaxCellsMixed :
              /\ w * h <= MaxCellsMixed
              /\ \E data \in [0..(w * h - 1) -> {Gray, Green, Black}] : SegStartState(w, h, data)
       \/ \E w \in 1..MaxCellsMono, h \in 1..MaxCellsMono :
              /\ w * h <= MaxCellsMono
              /\ \E data \in [0..(w * h - 1) -> {Gray, Red}] : SegStartState(w, h, data)
       \/ \E shape \in LargeShapes :
              SegStartState(shape[1], shape[2], [i \in 0..(shape[1] * shape[2] - 1) |-> Green])

SegIdle ==
    /\ segpc = "idle"
    /\ SegStartState(1, 1, [i \in 0..0 |-> Gray])

(***************************************************************************)
(* analyzeCandleSegment: aspect ratio, colour counts over the bounding     *)
(* box, confidence.  null is the record with accepted = FALSE.             *)
(* Math.round(colorRatio * densityRatio * 100) is taken as the exact       *)
(* rounding of 100 * count / (segWidth * segHeight).                       *)
(***************************************************************************)

NoCandle ==
    [accepted |-> FALSE, x |-> 0, y |-> 0, width |-> 0, height |-> 0,
     color |-> "none", confidence |-> 0]

\* width over height instead of height over width
TooFlat_Inverted(segWidth, segHeight) == 5 * segWidth < 4 * segHeight

\* ratioOfHeightToWidth < 0.8
TooFlat(segWidth, segHeight) == 5 * segHeight < 4 * segWidth

\* Math.round of num / den, den > 0, num >= 0
RoundDiv(num, den) == (2 * num + den) \div (2 * den)

\* equal counts taken as bullish
analyzeCandleSegment_TiesBullish(segment, data, width, height) ==
    LET segWidth == segment.x2 - segment.x1 + 1
        segHeight == segment.y2 - segment.y1 + 1
        box == {y * width + x : x \in segment.x1..segment.x2, y \in segment.y1..segment.y2}
        CountOf(class) ==
            Cardinality({i \in box : classifyPixel(data[i][1], data[i][2], data[i][3]) = class})
        greenCount0 == CountOf(Verde)
        redCount0 == CountOf(Vermelho)
        blackCount == CountOf(Preto)
        whiteCount == CountOf(Branco)
        totalColorPixels == redCount0 + greenCount0 + blackCount + whiteCount
        redCount == IF blackCount > redCount0 THEN redCount0 + blackCount ELSE redCount0
        greenCount == IF whiteCount > greenCount0 THEN greenCount0 + whiteCount ELSE greenCount0
        color == IF greenCount >= redCount THEN "verde" ELSE "vermelho"
        rounded == RoundDiv(100 * (IF color = "verde" THEN greenCount ELSE redCount),
                            segWidth * segHeight)
        confidence == IF rounded > 100 THEN 100 ELSE rounded
    IN  IF TooFlat(segWidth, segHeight) THEN NoCandle
        ELSE IF totalColorPixels < 5 THEN NoCandle
        ELSE IF confidence < 20 THEN NoCandle
        ELSE [accepted |-> TRUE, x |-> segment.x1, y |-> segment.y1,
              width |-> segWidth, height |-> segHeight,
              color |-> color, confidence |-> confidence]

analyzeCandleSegment(segment, data, width, height) ==
    LET segWidth == segment.x2 - segment.x1 + 1
        segHeight == segment.y2 - segment.y1 + 1
        box == {y * width + x : x \in segment.x1..segment.x2, y \in segment.y1..segment.y2}
        CountOf(class) ==
            Cardinality({i \in box : classifyPixel(data[i][1], data[i][2], data[i][3]) = class})
        greenCount0 == CountOf(Verde)
        redCount0 == CountOf(Vermelho)
        blackCount == CountOf(Preto)
        whiteCount == CountOf(Branco)
        totalColorPixels == redCount0 + greenCount0 + blackCount + whiteCount
        redCount == IF blackCount > redCount0 THEN redCount0 + blackCount ELSE redCount0
        greenCount == IF whiteCount > greenCount0 THEN greenCount0 + whiteCount ELSE greenCount0
        color == IF greenCount > redCount THEN "verde" ELSE "vermelho"
        rounded == RoundDiv(100 * (IF color = "verde" THEN greenCount ELSE redCount),
                            segWidth * segHeight)
        confidence == IF rounded > 100 THEN 100 ELSE rounded
    IN  IF TooFlat(segWidth, segHeight) THEN NoCandle
        ELSE IF totalColorPixels < 5 THEN NoCandle
        ELSE IF confidence < 20 THEN NoCandle
        ELSE [accepted |-> TRUE, x |-> segment.x1, y |-> segment.y1,
              width |-> segWidth, height |-> segHeight,
              color |-> color, confidence |-> confidence]

(***************************************************************************)
(* segmentCandlePatterns as one call.  The scan starts a fill at the       *)
(* lowest classified index not yet visited; the fill takes the queue       *)
(* layer by layer (all pixels at one distance from the start, then their   *)
(* unvisited same-class neighbours), which visits the pixels the queue     *)
(* visits and gives the same bounding box and area.                        *)
(***************************************************************************)

\* the in-bounds neighbours of idx that the push test accepts
PushedNeighbors(idx, color, w, h, cm, vis) ==
    LET cx == idx % w
        cy == idx \div w
    IN  { (cy + NeighborOffsets[k][2]) * w + (cx + NeighborOffsets[k][1]) :
            k \in { k \in 1..Len(NeighborOffsets) :
                      LET nx == cx + NeighborOffsets[k][1]
                          ny == cy + NeighborOffsets[k][2]
                      IN  /\ nx >= 0 /\ nx < w /\ ny >= 0 /\ ny < h
                          /\ ShouldPush(ny * w + nx, color, cm, vis) } }

RECURSIVE FloodFill(_, _, _, _, _, _)
FloodFill(layer, vis, color, w, h, cm) ==
    LET pushed == UNION {PushedNeighbors(idx, color, w, h, cm, vis) : idx \in layer}
    IN  IF pushed = {} THEN vis
        ELSE FloodFill(pushed, vis \cup pushed, color, w, h, cm)

RECURSIVE ScanComponents(_, _, _, _, _)
ScanComponents(vis, segs, w, h, cm) ==
    LET open == {idx \in DOMAIN cm : cm[idx] # None /\ idx \notin vis}
    IN  IF open = {} THEN segs
        ELSE LET idx == CHOOSE i \in open : \A j \in open : i <= j
                 vis2 == FloodFill({idx}, vis \cup {idx}, cm[idx], w, h, cm)
                 comp == vis2 \ vis
                 xs == {i % w : i \in comp}
                 ys == {i \div w : i \in comp}
                 area == Cardinality(comp)
             IN  ScanComponents(vis2,
                     IF KeepsSegment(area, MinOf(xs), MaxOf(xs), MinOf(ys), MaxOf(ys))
                     THEN Append(segs, [x1 |-> MinOf(xs), y1 |-> MinOf(ys),
                                        x2 |-> MaxOf(xs), y2 |-> MaxOf(ys), area |-> area])
                     ELSE segs,
                     w, h, cm)

segmentCandlePatterns(w, h, data) ==
    ScanComponents({}, <<>>, w, h,
        [i \in 0..(w * h - 1) |-> classifyPixel(data[i][1], data[i][2], data[i][3])])

(***************************************************************************)
(* Bitmaps of solid rectangles on a uniform dark background.  A rectangle  *)
(* stands in an image cropped to one pixel of background around it         *)
(* (background pixels further out touch no rectangle); the arrangement of  *)
(* two green and one red rectangle is one image at a tenth of the size.    *)
(***************************************************************************)

\* darker than black's limit of mean luminance 30, and just above it
DarkBlack == <<20, 20, 20>>

DarkGray == <<40, 40, 40>>

Rect(x, y, w, h, color) == [x |-> x, y |-> y, w |-> w, h |-> h, color |-> color]

InRect(rc, px, py) ==
    px >= rc.x /\ px < rc.x + rc.w /\ py >= rc.y /\ py < rc.y + rc.h

RectBitmap(w, h, rects, bg) ==
    [i \in 0..(w * h - 1) |->
        IF \E rc \in rects : InRect(rc, i % w, i \div w)
        THEN (CHOOSE rc \in rects : InRect(rc, i % w, i \div w)).color
        ELSE bg]

MakeScene(w, h, rects, bg) == [w |-> w, h |-> h, rects |-> rects, bg |-> bg]

SceneData(sc) == RectBitmap(sc.w, sc.h, sc.rects, sc.bg)

RectWidths == {4, 40}

RectHeights == {10, 12, 15, 50, 51, 100, 120, 150}

SingleScenes ==
    { MakeScene(rw + 2, rh + 2, {Rect(1, 1, rw, rh, col)}, bg) :
        rw \in RectWidths, rh \in RectHeights, col \in {Green, Red},
        bg \in {DarkBlack, DarkGray} }

TripleScenes ==
    { MakeScene(16, 17, {Rect(1, 1, 4, 12, Green), Rect(6, 1, 4, 15, Green),
                         Rect(11, 1, 4, 10, Red)}, bg) : bg \in {DarkBlack, DarkGray} }

Scenes == SingleScenes \cup TripleScenes

SceneInit ==
    /\ scene \in Scenes
    /\ sceneSegments = <<>>
    /\ scenepc = "input"

SceneIdle ==
    /\ scene = MakeScene(1, 1, {}, DarkGray)
    /\ sceneSegments = <<>>
    /\ scenepc = "idle"

SegmentScene ==
    /\ scenepc = "input"
    /\ sceneSegments' = segmentCandlePatterns(scene.w, scene.h, SceneData(scene))
    /\ scenepc' = "done"
    /\ UNCHANGED scene

SceneNext == SegmentScene /\ UNCHANGED <<m1vars, ohlcvars, clsvars, segvars, qvars, rvars, chartvars, livevars, pvars, evars, lvars, boxvars, callvars>>

(***************************************************************************)
(* checkImageQuality.  Luminance 0.299 r + 0.587 g + 0.114 b is kept in    *)
(* thousandths (299 r + 587 g + 114 b), so contrast > 50 is a difference   *)
(* above 50000 and noiseEstimate < 30 is sum < 30000 * interior pixels.    *)
(* The promise resolves in one step, whichever way loading goes.           *)
(***************************************************************************)

Luminance1000(px) == 299 * px[1] + 587 * px[2] + 114 * px[3]

\* img.width >= 400 && img.height >= 300
MinQualityWidth == 400

MinQualityHeight == 300

\* the loop's running minimum and maximum, from 255 and 0
MinLuminance(n, data) == MinOf({255000} \cup {Luminance1000(data[i]) : i \in 0..(n - 1)})

MaxLuminance(n, data) == MaxOf({0} \cup {Luminance1000(data[i]) : i \in 0..(n - 1)})

\* the limit included
HasGoodContrast_Inclusive(n, data) == MaxLuminance(n, data) - MinLuminance(n, data) >= 50000

\* contrast > 50, over the n pixels of data
HasGoodContrast(n, data) == MaxLuminance(n, data) - MinLuminance(n, data) > 50000

\* diff of the pixel at index i: the four neighbour differences
NeighborDiff(i, w, data) ==
    LET l == Luminance1000(data[i])
    IN  Abs(l - Luminance1000(data[i - w])) + Abs(l - Luminance1000(data[i + w]))
        + Abs(l - Luminance1000(data[i - 1])) + Abs(l - Luminance1000(data[i + 1]))

\* the sum of NeighborDiff over the indices, grouped by value
RECURSIVE SumByValue(_, _, _, _)
SumByValue(vals, idxs, w, data) ==
    IF vals = {} THEN 0
    ELSE LET v == CHOOSE u \in vals : TRUE
         IN  v * Cardinality({i \in idxs : NeighborDiff(i, w, data) = v})
             + SumByValue(vals \ {v}, idxs, w, data)

\* noiseEstimate before it is normalised: diff summed over the pixels with
\* 1 <= x < width - 1, 1 <= y < height - 1
NoiseSum(w, h, data) ==
    LET interior == {i \in 0..(w * h - 1) : i % w \in 1..(w - 2) /\ i \div w \in 1..(h - 2)}
    IN  SumByValue({NeighborDiff(i, w, data) : i \in interior}, interior, w, data)

\* noiseEstimate /= (width - 2) * (height - 2); noiseEstimate < 30.
\* 0 / 0 is NaN and compares false; 0 / negative is -0.
HasLowNoise(w, h, data) ==
    LET den == (w - 2) * (h - 2)
    IN  IF den = 0 THEN FALSE
        ELSE IF w < 3 \/ h < 3 THEN TRUE
        ELSE NoiseSum(w, h, data) \div 30000 < den

NoDetails == [defined |-> FALSE, resolution |-> "", contrast |-> "", noise |-> ""]

QualityFailure(text) == [isGoodQuality |-> FALSE, message |-> <<text>>, details |-> NoDetails]

\* the pixel buffer getImageData returns for the image: the pixels listed
\* one by one, or one colour, or a left half of one colour and a right half
\* of another
ImageData(img) ==
    IF img.pixels.kind = "listed" THEN img.pixels.data
    ELSE [i \in 0..(img.w * img.h - 1) |->
             IF \/ img.pixels.kind = "halves" /\ 2 * (i % img.w) >= img.w
                \/ /\ img.pixels.kind = "box"
                   /\ i % img.w >= img.pixels.box[1]
                   /\ i % img.w < img.pixels.box[1] + img.pixels.box[3]
                   /\ i \div img.w >= img.pixels.box[2]
                   /\ i \div img.w < img.pixels.box[2] + img.pixels.box[4]
             THEN img.pixels.b ELSE img.pixels.a]

checkImageQuality(img) ==
    IF img.outcome = "loadError"
    THEN QualityFailure("Falha ao carregar a imagem para analise de qualidade.")
    ELSE IF img.outcome = "noContext"
    THEN QualityFailure("Nao foi possivel analisar a qualidade da imagem.")
    ELSE IF img.outcome = "throws"
    THEN QualityFailure("Erro ao analisar a qualidade da imagem.")
    ELSE LET data == ImageData(img)
             hasGoodResolution == img.w >= MinQualityWidth /\ img.h >= MinQualityHeight
             hasGoodContrast == HasGoodContrast(img.w * img.h, data)
             hasLowNoise == HasLowNoise(img.w, img.h, data)
             isGoodQuality == hasGoodResolution /\ hasGoodContrast /\ hasLowNoise
         IN  [ isGoodQuality |-> isGoodQuality,
               message |->
                   << IF isGoodQuality THEN "Imagem com boa qualidade para analise."
                      ELSE "A qualidade da imagem pode afetar a precisao da analise." >>
                   \o (IF hasGoodResolution THEN <<>> ELSE <<" Resolucao baixa.">>)
                   \o (IF hasGoodContrast THEN <<>> ELSE <<" Contraste insuficiente.">>)
                   \o (IF hasLowNoise THEN <<>> ELSE <<" Presenca de ruido detectada.">>),
               details |-> [ defined |-> TRUE,
                             resolution |-> IF hasGoodResolution THEN "Boa" ELSE "Baixa",
                             contrast |-> IF hasGoodContrast THEN "Adequado" ELSE "Insuficiente",
                             noise |-> IF hasLowNoise THEN "Baixo" ELSE "Alto" ] ]

\* greys 0, 50, 51, 128, 255
Grey(v) == <<v, v, v>>

NoBox == <<0, 0, 0, 0>>

Listed(data) == [kind |-> "listed", data |-> data, a |-> Grey(0), b |-> Grey(0), box |-> NoBox]

Uniform(a) == [kind |-> "uniform", data |-> <<>>, a |-> a, b |-> a, box |-> NoBox]

Halves(a, b) == [kind |-> "halves", data |-> <<>>, a |-> a, b |-> b, box |-> NoBox]

\* colour b in the rectangle box = <<x, y, width, height>>, colour a around it
Boxed(a, b, box) == [kind |-> "box", data |-> <<>>, a |-> a, b |-> b, box |-> box]

QImage(w, h, pixels, outcome) == [w |-> w, h |-> h, pixels |-> pixels, outcome |-> outcome]

\* every image of at most this many pixels over greys 0, 50, 51 and 255
QMaxCells == 4

\* large images of one colour and of two halves, at and just below the
\* resolution limit
QLargeImages ==
    { QImage(w, MinQualityHeight, px, "loaded") :
        w \in {MinQualityWidth - 1, MinQualityWidth},
        px \in {Uniform(Grey(128)), Uniform(Grey(255)), Halves(Grey(0), Grey(255))} }

\* the small images, the 3x3 images over greys 0 and 255 (the checkerboard
\* among them), and the large ones
QInit ==
    /\ qpc = "input"
    /\ qResult = QualityFailure("")
    /\ \/ \E w \in 1..QMaxCells, h \in 1..QMaxCells :
              /\ w * h <= QMaxCells
              /\ \E data \in [0..(w * h - 1) -> {Grey(0), Grey(50), Grey(51), Grey(255)}],
                    outcome \in {"loaded", "loadError", "noContext", "throws"} :
                     qImage = QImage(w, h, Listed(data), outcome)
       \/ \E data \in [0..8 -> {Grey(0), Grey(255)}] :
              qImage = QImage(3, 3, Listed(data), "loaded")
       \/ qImage \in QLargeImages

QIdle ==
    /\ qpc = "idle"
    /\ qResult = QualityFailure("")
    /\ qImage = QImage(1, 1, Uniform(Grey(0)), "loaded")

CheckQuality ==
    /\ qpc = "input"
    /\ qResult' = checkImageQuality(qImage)
    /\ qpc' = "done"
    /\ UNCHANGED qImage

QNext == CheckQuality /\ UNCHANGED <<m1vars, ohlcvars, clsvars, segvars, scenevars, rvars, chartvars, livevars, pvars, evars, lvars, boxvars, callvars>>

(***************************************************************************)
(* detectChartRegion.  The scan computes the pixel index as                *)
(* (y * width + x) * 4, where width is the const declared further down in  *)
(* the same block (width = right - left).  Read before its declaration it  *)
(* is uninitialized in an ES2015 build (the read throws a ReferenceError,  *)
(* caught by the handler's catch) and undefined in a build that lowers     *)
(* const to var (the index is NaN and every channel read is undefined).    *)
(* Rectangles are kept in thousandths of a pixel, so that 0.85 and 0.075   *)
(* of a dimension are exact.                                               *)
(***************************************************************************)

\* the identifier read is canvas.width
ScanWidth_Canvas(img) == [state |-> "number", value |-> img.w]

\* what the identifier width holds inside the scan loop
ScanWidth(img) ==
    [state |-> IF img.build = "es2015" THEN "uninitialized" ELSE "undefined", value |-> 0]

UndefinedPixel == [defined |-> FALSE, r |-> 0, g |-> 0, b |-> 0]

\* data[i], data[i + 1], data[i + 2] for i = (y * width + x) * 4
ScanPixel(data, n, sw, x, y) ==
    LET idx == y * sw.value + x
    IN  IF sw.state = "number" /\ idx >= 0 /\ idx < n
        THEN [defined |-> TRUE, r |-> data[idx][1], g |-> data[idx][2], b |-> data[idx][3]]
        ELSE UndefinedPixel

\* isGrid || isCandle || isLine || (avgColor < 220 && avgColor > 30);
\* every comparison with an undefined channel is false
ChartLike(px) ==
    /\ px.defined
    /\ LET sum == px.r + px.g + px.b
           isGrid == Abs(px.r - px.g) < 10 /\ Abs(px.r - px.b) < 10 /\ sum > 540 /\ sum < 690
           isCandle == \/ 2 * px.r > 3 * px.g /\ 2 * px.r > 3 * px.b
                       \/ 2 * px.g > 3 * px.r /\ 2 * px.g > 3 * px.b
           isLine == Abs(px.r - px.g) < 20 /\ Abs(px.r - px.b) < 20 /\ sum < 480
       IN  isGrid \/ isCandle \/ isLine \/ (sum < 660 /\ sum > 90)

\* Math.max(5, Math.floor(dimension * 0.02))
Margin(dimension) == IF dimension \div 50 > 5 THEN dimension \div 50 ELSE 5

\* width > 100 && height > 100 && width/img.width > 0.3 && height/img.height > 0.3
BoxIsReasonable(width, height, imgW, imgH) ==
    width > 100 /\ height > 100 /\ 10 * width > 3 * imgW /\ 10 * height > 3 * imgH

RegionFailure(text) ==
    [success |-> FALSE, hasData |-> FALSE,
     data |-> [x |-> 0, y |-> 0, width |-> 0, height |-> 0], error |-> text]

\* anchored at the origin instead of centred
DefaultRegion_NotCentered(imgW, imgH) ==
    [x |-> 0, y |-> 0, width |-> 850 * imgW, height |-> 850 * imgH]

\* 85% of the image, centred
DefaultRegion(imgW, imgH) ==
    [x |-> (1000 * imgW - 850 * imgW) \div 2, y |-> (1000 * imgH - 850 * imgH) \div 2,
     width |-> 850 * imgW, height |-> 850 * imgH]

detectChartRegion(img) ==
    IF img.outcome = "loadError"
    THEN RegionFailure("Falha ao carregar a imagem para deteccao de regiao.")
    ELSE IF img.outcome = "noContext"
    THEN RegionFailure("Falha ao criar contexto de canvas para deteccao de regiao.")
    ELSE LET sw == ScanWidth(img)
             n == img.w * img.h
             data == ImageData(img)
         IN  IF img.outcome = "throws" \/ (sw.state = "uninitialized" /\ n > 0)
             THEN [success |-> TRUE, hasData |-> TRUE, data |-> DefaultRegion(img.w, img.h),
                   error |-> "Regiao estimada automaticamente"]
             ELSE LET hits == {i \in 0..(n - 1) :
                                  ChartLike(ScanPixel(data, n, sw, i % img.w, i \div img.w))}
                      xs == {i % img.w : i \in hits}
                      ys == {i \div img.w : i \in hits}
                      left0 == IF hits = {} THEN img.w ELSE MinOf(xs)
                      right0 == IF hits = {} THEN 0 ELSE MaxOf(xs)
                      top0 == IF hits = {} THEN img.h ELSE MinOf(ys)
                      bottom0 == IF hits = {} THEN 0 ELSE MaxOf(ys)
                      left == MaxOf({0, left0 - Margin(img.w)})
                      top == MaxOf({0, top0 - Margin(img.h)})
                      right == MinOf({img.w, right0 + Margin(img.w)})
                      bottom == MinOf({img.h, bottom0 + Margin(img.h)})
                      width == right - left
                      height == bottom - top
                  IN  IF BoxIsReasonable(width, height, img.w, img.h)
                      THEN [success |-> TRUE, hasData |-> TRUE,
                            data |-> [x |-> 1000 * left, y |-> 1000 * top,
                                      width |-> 1000 * width, height |-> 1000 * height],
                            error |-> ""]
                      ELSE [success |-> TRUE, hasData |-> TRUE,
                            data |-> DefaultRegion(img.w, img.h),
                            error |-> "Regiao detectada automaticamente"]

RImage(w, h, pixels, outcome, build) ==
    [w |-> w, h |-> h, pixels |-> pixels, outcome |-> outcome, build |-> build]

Builds == {"es2015", "es5"}

White == Grey(255)

\* one-colour images up to this many pixels a side, however loading goes
RMaxSide == 3

\* larger one-colour images, and white images with a green or a mid-grey
\* rectangle that is large (110 x 110 at (20, 20)) or small (50 x 50)
RLargeImages ==
    { RImage(sz[1], sz[2], Uniform(c), "loaded", bd) :
        sz \in {<<120, 120>>, <<200, 150>>}, c \in {Grey(0), Grey(128), White, Green},
        bd \in Builds }
    \cup
    { RImage(150, 150, Boxed(White, c, box), "loaded", bd) :
        c \in {Grey(128), Green}, box \in {<<20, 20, 110, 110>>, <<20, 20, 50, 50>>},
        bd \in Builds }

RInit ==
    /\ rpc = "input"
    /\ rResult = RegionFailure("")
    /\ \/ \E w \in 1..RMaxSide, h \in 1..RMaxSide, c \in {Grey(0), Grey(128), White, Green},
            outcome \in {"loaded", "loadError", "noContext", "throws"}, bd \in Builds :
              rImage = RImage(w, h, Uniform(c), outcome, bd)
       \/ rImage \in RLargeImages

RIdle ==
    /\ rpc = "idle"
    /\ rResult = RegionFailure("")
    /\ rImage = RImage(1, 1, Uniform(Grey(0)), "loaded", "es2015")

DetectRegion ==
    /\ rpc = "input"
    /\ rResult' = detectChartRegion(rImage)
    /\ rpc' = "done"
    /\ UNCHANGED rImage

RNext == DetectRegion /\ UNCHANGED <<m1vars, ohlcvars, clsvars, segvars, scenevars, qvars, chartvars, livevars, pvars, evars, lvars, boxvars, callvars>>

(***************************************************************************)
(* patternDetection.ts: detectCandles and analyzeChart.  The extractor     *)
(* (extractRealCandlesFromImage) and the analyzers are imported modules:   *)
(* the extractor's outcome is the input, an analyzer's output is any       *)
(* value of a small set, and chartInvoked records which analyzers were     *)
(* called and on which candles.                                            *)
(***************************************************************************)

ExtractedCandle(o, h, l, c, hasPosition, px, py) ==
    [open |-> o, high |-> h, low |-> l, close |-> c,
     hasPosition |-> hasPosition, positionX |-> px, positionY |-> py]

\* detectCandles: the filter's isValid
IsValidOHLC(candle) ==
    /\ candle.open > 0 /\ candle.high > 0 /\ candle.low > 0 /\ candle.close > 0
    /\ candle.high >= MaxOf({candle.open, candle.close})
    /\ candle.low <= MinOf({candle.open, candle.close})

\* analyzeChart: the filter's isValid, which also asks for a position
IsValidForAnalysis(candle) ==
    /\ IsValidOHLC(candle)
    /\ candle.hasPosition /\ candle.positionX >= 0 /\ candle.positionY >= 0

\* the try block returns the candles as extracted
detectCandles_Unfiltered(ext) == IF ext.throws THEN <<>> ELSE ext.candles

detectCandles(ext) ==
    IF ext.throws THEN <<>>
    ELSE IF Len(ext.candles) = 0 THEN <<>>
    ELSE SelectSeq(ext.candles, IsValidOHLC)

\* the early return is never taken
NoCandlesExtracted_Never(extracted) == FALSE

\* candles.length === 0
NoCandlesExtracted(extracted) == Len(extracted) = 0

\* the result returned when no candle was extracted
EmptyChartResult ==
    [rejected |-> FALSE, candles |-> <<>>, patterns |-> <<>>, scalpingSignals |-> <<>>,
     entryRecommendations |-> <<>>, operatingScore |-> 0,
     warnings |-> <<"Nenhum candle detectado na imagem capturada">>]

RejectedChartResult ==
    [rejected |-> TRUE, candles |-> <<>>, patterns |-> <<>>, scalpingSignals |-> <<>>,
     entryRecommendations |-> <<>>, operatingScore |-> 0, warnings |-> <<>>]

\* let validCandles = candles.filter(...); if none is left, validCandles = candles
ValidCandles(extracted) ==
    LET kept == SelectSeq(extracted, IsValidForAnalysis)
    IN  IF Len(kept) = 0 THEN extracted ELSE kept

\* the analyzers analyzeChart calls on validCandles (non-empty here)
AnalyzersCalled(opts) ==
    {"analyzeAdvancedMarketConditions", "analyzeVolatility", "detectChartPatterns",
     "analyzePriceAction", "analyzeVolume", "detectDivergences",
     "detectTechnicalIndicators", "analyzeMarketContext", "performConfluenceAnalysis"}
    \cup (IF opts.enableCandleDetection THEN {"detectCandlestickPatterns"} ELSE {})

\* patterns.slice(0, 3)
FirstThree(seq) == IF Len(seq) > 3 THEN SubSeq(seq, 1, 3) ELSE seq

\* analyzeChart on the extractor's outcome; score and advWarnings come from
\* analyzeAdvancedMarketConditions, candlePatterns from
\* detectCandlestickPatterns, chartPatterns from the four detectChartPatterns
\* calls together.  invoked is the set of <<analyzer, candles given>>.
analyzeChart(ext, opts, score, advWarnings, candlePatterns, chartPatterns) ==
    IF ext.throws THEN [result |-> RejectedChartResult, invoked |-> {}]
    ELSE IF NoCandlesExtracted(ext.candles) THEN [result |-> EmptyChartResult, invoked |-> {}]
    ELSE LET validCandles == ValidCandles(ext.candles)
             usedCandlePatterns == IF opts.enableCandleDetection THEN candlePatterns ELSE <<>>
             patterns == usedCandlePatterns \o chartPatterns
         IN  [ result |->
                   [rejected |-> FALSE, candles |-> validCandles, patterns |-> patterns,
                    scalpingSignals |-> usedCandlePatterns,
                    entryRecommendations |-> FirstThree(patterns),
                    operatingScore |-> score, warnings |-> advWarnings],
               invoked |-> {<<a, validCandles>> : a \in AnalyzersCalled(opts)} ]

\* extractor outputs: two valid candles, and candles with high below open,
\* low above close, a zero price, a negative position, no position
ExtractedCandles ==
    { ExtractedCandle(2, 3, 1, 2, TRUE, 0, 0), ExtractedCandle(1, 2, 1, 2, TRUE, 5, 0),
      ExtractedCandle(2, 1, 1, 2, TRUE, 0, 0), ExtractedCandle(2, 3, 3, 3, TRUE, 0, 0),
      ExtractedCandle(0, 1, 0, 1, TRUE, 0, 0), ExtractedCandle(2, 3, 1, 2, TRUE, -1, 0),
      ExtractedCandle(2, 3, 1, 2, FALSE, 0, 0) }

\* candles per extraction
MaxExtracted == 2

ChartOptions == {[enableCandleDetection |-> b] : b \in BOOLEAN}

OperatingScores == {0, 25, 80}

AdvancedWarnings == {<<>>, <<"baixa liquidez">>}

DetectedPatternLists == {<<>>, <<"martelo">>, <<"martelo", "engolfo">>}

ChartInit ==
    /\ \E n \in 0..MaxExtracted, throws \in BOOLEAN :
           \E cs \in [1..n -> ExtractedCandles] :
               /\ throws => n = 0
               /\ extraction = [throws |-> throws, candles |-> cs]
    /\ options \in ChartOptions
    /\ chartResult = RejectedChartResult
    /\ chartInvoked = {}
    /\ chartpc = "input"
    /\ detected = <<>>
    /\ detectpc = "input"

ChartIdle ==
    /\ extraction = [throws |-> FALSE, candles |-> <<>>]
    /\ options = [enableCandleDetection |-> TRUE]
    /\ chartResult = RejectedChartResult
    /\ chartInvoked = {}
    /\ chartpc = "idle"
    /\ detected = <<>>
    /\ detectpc = "idle"

AnalyzeChart ==
    /\ chartpc = "input"
    /\ \E score \in OperatingScores, advWarnings \in AdvancedWarnings,
          candlePatterns \in DetectedPatternLists, chartPatterns \in DetectedPatternLists :
           LET out == analyzeChart(extraction, options, score, advWarnings,
                                   candlePatterns, chartPatterns)
           IN  /\ chartResult' = out.result
               /\ chartInvoked' = out.invoked
    /\ chartpc' = "done"
    /\ UNCHANGED <<extraction, options, detected, detectpc>>

DetectCandles ==
    /\ detectpc = "input"
    /\ detected' = detectCandles(extraction)
    /\ detectpc' = "done"
    /\ UNCHANGED <<extraction, options, chartResult, chartInvoked, chartpc>>

ChartNext ==
    \/ AnalyzeChart /\ UNCHANGED <<m1vars, ohlcvars, clsvars, segvars, scenevars, qvars, rvars, livevars, pvars, evars, lvars, boxvars, callvars>>
    \/ DetectCandles /\ UNCHANGED <<m1vars, ohlcvars, clsvars, segvars, scenevars, qvars, rvars, livevars, pvars, evars, lvars, boxvars, callvars>>

(***************************************************************************)
(* LiveAnalysis.tsx: the live mode.  startLiveAnalysis awaits the camera,  *)
(* sets isLiveActive and, 1000 ms later, arms an interval that calls       *)
(* captureAndAnalyze.  The function handed to setInterval is the one of    *)
(* the render in which startLiveAnalysis was created: the isAnalyzing it   *)
(* reads is the value of that render (closureAnalyzing), whatever          *)
(* setIsAnalyzing did since.  Each await of captureAndAnalyze is a point   *)
(* where ticks, completions of other runs and the buttons interleave.      *)
(***************************************************************************)
MaxStarts == 1

MaxRuns == 2

MaxLiveResults == 20

Min(a, b) == IF a <= b THEN a ELSE b

\* a captureAndAnalyze call that returned: ctx unavailable, no chart in the
\* frame, an exception on the way, or the analysis completed
Ended(id, outcome) == [id |-> id, outcome |-> outcome]

NoEnd == Ended(0, "none")

\* A closure over the render in which the handler was created.
Closure(id) == [id |-> id, closureAnalyzing |-> isAnalyzing]

\* The guard of captureAndAnalyze reading the state as last committed rather
\* than the value its closure holds.
GuardBlocks_Current(closure) == isAnalyzing

\* `if (!videoRef.current || !canvasRef.current || isAnalyzing) return;`
GuardBlocks(closure) == ~mounted \/ closure.closureAnalyzing

\* finally { setIsAnalyzing(false); } that forgets to take the run out of flight
EndRun_Leak(run) == runs

\* the call of that run has returned: its promise is settled
EndRun(run) == runs \ {run}

\* [liveResult, ...prev.slice(0, 19)] without the slice
Prepend_Unbounded(id, prev) == <<id>> \o prev

\* setLiveResults(prev => [liveResult, ...prev.slice(0, 19)])
Prepend(id, prev) == <<id>> \o SubSeq(prev, 1, Min(MaxLiveResults - 1, Len(prev)))

\* The "Iniciar Live M1" button, shown while !isLiveActive: startLiveAnalysis
\* runs up to `await startCamera()`.
StartLiveAnalysis ==
    /\ mounted /\ ~isLiveActive /\ startsMade < MaxStarts
    /\ startsMade' = startsMade + 1
    /\ cameraPending' = cameraPending \cup {Closure(startsMade + 1)}
    /\ UNCHANGED <<mounted, isLiveActive, isAnalyzing, intervalRef, intervals, timeouts,
                   runs, liveResults, currentAnalysis, lastTick, runsMade, lastEnd>>

\* startCamera() settled (it catches its own errors): setIsLiveActive(true)
\* and setTimeout(..., 1000).
CameraReady ==
    \E c \in cameraPending :
        /\ cameraPending' = cameraPending \ {c}
        /\ isLiveActive' = TRUE
        /\ timeouts' = timeouts \cup {c}
        /\ UNCHANGED <<mounted, isAnalyzing, intervalRef, intervals, runs, liveResults,
                       currentAnalysis, lastTick, startsMade, runsMade, lastEnd>>

\* The timeout fires: intervalRef.current = setInterval(captureAndAnalyze, analysisInterval)
ArmInterval ==
    \E c \in timeouts :
        /\ timeouts' = timeouts \ {c}
        /\ intervals' = intervals \cup {c}
        /\ intervalRef' = c.id
        /\ UNCHANGED <<mounted, isLiveActive, isAnalyzing, cameraPending, runs, liveResults,
                       currentAnalysis, lastTick, startsMade, runsMade, lastEnd>>

\* An armed interval fires and calls its captureAndAnalyze, up to the first
\* await (or to the return before it).
Tick ==
    \E c \in intervals, hasContext \in BOOLEAN :
        IF GuardBlocks(c)
        THEN /\ lastTick' = "dropped"
             /\ UNCHANGED <<mounted, isLiveActive, isAnalyzing, intervalRef, intervals,
                            timeouts, cameraPending, runs, liveResults, currentAnalysis,
                            startsMade, runsMade, lastEnd>>
        ELSE /\ runsMade < MaxRuns
             /\ runsMade' = runsMade + 1
             /\ IF hasContext
                THEN /\ isAnalyzing' = TRUE
                     /\ runs' = runs \cup {[id |-> runsMade + 1, pc |-> "detectChartInFrame"]}
                     /\ lastTick' = "started"
                     /\ UNCHANGED lastEnd
                ELSE /\ isAnalyzing' = FALSE
                     /\ runs' = runs
                     /\ lastTick' = "noContext"
                     /\ lastEnd' = Ended(runsMade + 1, "noContext")
             /\ UNCHANGED <<mounted, isLiveActive, intervalRef, intervals, timeouts,
                            cameraPending, liveResults, currentAnalysis, startsMade>>

\* `await detectChartInFrame(imageUrl)` resolves.
DetectDone ==
    \E run \in runs, hasChart \in BOOLEAN :
        /\ run.pc = "detectChartInFrame"
        /\ IF hasChart
           THEN /\ runs' = (runs \ {run}) \cup {[run EXCEPT !.pc = "enhanceImageForAnalysis"]}
                /\ UNCHANGED <<isAnalyzing, currentAnalysis, lastEnd>>
           ELSE /\ currentAnalysis' = 0
                /\ isAnalyzing' = FALSE
                /\ runs' = EndRun(run)
                /\ lastEnd' = Ended(run.id, "noChart")
        /\ UNCHANGED <<mounted, isLiveActive, intervalRef, intervals, timeouts, cameraPending,
                       liveResults, lastTick, startsMade, runsMade>>

\* `await enhanceImageForAnalysis(imageUrl)` resolves or rejects.
EnhanceDone ==
    \E run \in runs, resolved \in BOOLEAN :
        /\ run.pc = "enhanceImageForAnalysis"
        /\ IF resolved
           THEN /\ runs' = (runs \ {run}) \cup {[run EXCEPT !.pc = "analyzeChart"]}
                /\ UNCHANGED <<isAnalyzing, lastEnd>>
           ELSE /\ isAnalyzing' = FALSE
                /\ runs' = EndRun(run)
                /\ lastEnd' = Ended(run.id, "failed")
        /\ UNCHANGED <<mounted, isLiveActive, intervalRef, intervals, timeouts, cameraPending,
                       liveResults, currentAnalysis, lastTick, startsMade, runsMade>>

\* `await analyzeChart(...)` resolves or rejects; the rest of the try block,
\* the catch and the finally.
AnalyzeDone ==
    \E run \in runs, resolved \in BOOLEAN :
        /\ run.pc = "analyzeChart"
        /\ IF resolved
           THEN /\ currentAnalysis' = run.id
                /\ liveResults' = Prepend(run.id, liveResults)
                /\ lastEnd' = Ended(run.id, "completed")
           ELSE /\ UNCHANGED <<currentAnalysis, liveResults>>
                /\ lastEnd' = Ended(run.id, "failed")
        /\ isAnalyzing' = FALSE
        /\ runs' = EndRun(run)
        /\ UNCHANGED <<mounted, isLiveActive, intervalRef, intervals, timeouts, cameraPending,
                       lastTick, startsMade, runsMade>>

\* The body of stopLiveAnalysis.
StopBody ==
    /\ intervals' = IF intervalRef # 0 THEN {c \in intervals : c.id # intervalRef} ELSE intervals
    /\ intervalRef' = 0
    /\ isLiveActive' = FALSE
    /\ currentAnalysis' = 0
    /\ UNCHANGED <<mounted, isAnalyzing, timeouts, cameraPending, runs, liveResults, lastTick,
                   startsMade, runsMade, lastEnd>>

\* The "Parar Live" button, shown while isLiveActive.
StopLiveAnalysis == mounted /\ isLiveActive /\ StopBody

\* The camera button, disabled while isLiveActive: stopLiveAnalysis() and
\* setFacingMode.  The effect on [facingMode] sees isLiveActive false and
\* restarts nothing.
ToggleCameraFacing == mounted /\ ~isLiveActive /\ intervalRef # 0 /\ StopBody

LiveInit ==
    /\ mounted = TRUE
    /\ isLiveActive = FALSE
    /\ isAnalyzing = FALSE
    /\ intervalRef = 0
    /\ intervals = {}
    /\ timeouts = {}
    /\ cameraPending = {}
    /\ runs = {}
    /\ liveResults = <<>>
    /\ currentAnalysis = 0
    /\ lastTick = "none"
    /\ startsMade = 0
    /\ runsMade = 0
    /\ lastEnd = NoEnd

\* liveResults of a session in which k analyses completed before, newest first
EarlierResults(k) == [i \in 1..k |-> 100 + k + 1 - i]

\* the component after 0, 18, 19 or 20 completed analyses, live mode stopped
LiveLaterInit ==
    /\ mounted = TRUE
    /\ isLiveActive = FALSE
    /\ isAnalyzing = FALSE
    /\ intervalRef = 0
    /\ intervals = {}
    /\ timeouts = {}
    /\ cameraPending = {}
    /\ runs = {}
    /\ liveResults \in {EarlierResults(k) : k \in {0} \cup ((MaxLiveResults - 2)..MaxLiveResults)}
    /\ currentAnalysis = 0
    /\ lastTick = "none"
    /\ startsMade = 0
    /\ runsMade = 0
    /\ lastEnd = NoEnd

LiveIdle ==
    /\ mounted = FALSE
    /\ isLiveActive = FALSE
    /\ isAnalyzing = FALSE
    /\ intervalRef = 0
    /\ intervals = {}
    /\ timeouts = {}
    /\ cameraPending = {}
    /\ runs = {}
    /\ liveResults = <<>>
    /\ currentAnalysis = 0
    /\ lastTick = "none"
    /\ startsMade = 0
    /\ runsMade = 0
    /\ lastEnd = NoEnd

LiveOthers == <<m1vars, ohlcvars, clsvars, segvars, scenevars, qvars, rvars, chartvars, pvars, evars, lvars, boxvars, callvars>>

LiveNext ==
    \/ StartLiveAnalysis /\ UNCHANGED LiveOthers
    \/ CameraReady /\ UNCHANGED LiveOthers
    \/ ArmInterval /\ UNCHANGED LiveOthers
    \/ Tick /\ UNCHANGED LiveOthers
    \/ DetectDone /\ UNCHANGED LiveOthers
    \/ EnhanceDone /\ UNCHANGED LiveOthers
    \/ AnalyzeDone /\ UNCHANGED LiveOthers
    \/ StopLiveAnalysis /\ UNCHANGED LiveOthers
    \/ ToggleCameraFacing /\ UNCHANGED LiveOthers

(***************************************************************************)
(* processImage (image processing utilities): loads the image behind       *)
(* imageUrl, checks the canvas context and the minimum size, enhances the  *)
(* pixels and encodes the canvas.  What the browser does (loading, the     *)
(* context, an exception while processing, the encoded URL) is an input.   *)
(***************************************************************************)
MinProcessSide == 200

\* `img.width < 200 || img.height < 200` with && in place of ||
TooSmall_Both(img) == img.width < MinProcessSide /\ img.height < MinProcessSide

\* `if (img.width < 200 || img.height < 200)`
TooSmall(img) == img.width < MinProcessSide \/ img.height < MinProcessSide

\* resolve({ success: false, data: imageUrl, error: text })
ProcessFailure(img, text) ==
    [settled |-> "resolved", success |-> FALSE, data |-> img.url, error |-> text]

\* resolve({ success: true, data: canvas.toDataURL('image/jpeg') }); no error field
ProcessSuccess(img) ==
    [settled |-> "resolved", success |-> TRUE, data |-> img.encoded, error |-> ""]

processImage(img) ==
    IF img.load = "throws"
    THEN ProcessFailure(img, "Erro inesperado ao processar a imagem.")
    ELSE IF img.load = "error"
    THEN ProcessFailure(img, "Falha ao carregar a imagem para processamento.")
    ELSE IF ~img.context
    THEN ProcessFailure(img, "Falha ao criar contexto de canvas para processamento de imagem.")
    ELSE IF TooSmall(img)
    THEN ProcessFailure(img, "Imagem muito pequena para processamento preciso. Recomenda-se usar imagens maiores.")
    ELSE IF img.processing = "throws"
    THEN ProcessFailure(img, "Erro ao processar a imagem. Tente uma imagem diferente ou ajuste manualmente.")
    ELSE ProcessSuccess(img)

ImageUrls == {"data:image/png;a", "data:image/jpeg;b"}

ProcessSides == {1, 199, 200, 640}

PImages ==
    [url : ImageUrls, width : ProcessSides, height : ProcessSides,
     load : {"load", "error", "throws"}, context : BOOLEAN,
     processing : {"ok", "throws"}, encoded : ImageUrls]

PInit ==
    /\ pImage \in PImages
    /\ pResult = Undefined
    /\ ppc = "input"

PIdle ==
    /\ pImage = Undefined
    /\ pResult = Undefined
    /\ ppc = "idle"

ProcessImage ==
    /\ ppc = "input"
    /\ pResult' = processImage(pImage)
    /\ ppc' = "done"
    /\ UNCHANGED pImage

PNext == ProcessImage /\ UNCHANGED <<m1vars, ohlcvars, clsvars, segvars, scenevars, qvars, rvars, chartvars, livevars, evars, lvars, boxvars, callvars>>

(***************************************************************************)
(* enhanceEdges: copies the buffer and turns white every interior pixel    *)
(* whose Sobel gradient, taken on the red channel of the input, is above   *)
(* the threshold.  gx and gy are kept multiplied by 4 (the sums before     *)
(* `/ 4`), so magnitude > 25 reads gx4^2 + gy4^2 > 16 * 25^2: both sides   *)
(* are exact in double arithmetic.                                         *)
(***************************************************************************)
EdgeThreshold == 25

\* data[(y * width + x) * 4]: the first channel of the pixel
Channel0(data, width, x, y) == data[y * width + x][1]

\* gx before the division by 4
SobelX4(data, width, x, y) ==
      Channel0(data, width, x + 1, y - 1) - Channel0(data, width, x - 1, y - 1)
    + 2 * Channel0(data, width, x + 1, y) - 2 * Channel0(data, width, x - 1, y)
    + Channel0(data, width, x + 1, y + 1) - Channel0(data, width, x - 1, y + 1)

\* gy before the division by 4
SobelY4(data, width, x, y) ==
      Channel0(data, width, x - 1, y + 1) - Channel0(data, width, x - 1, y - 1)
    + 2 * Channel0(data, width, x, y + 1) - 2 * Channel0(data, width, x, y - 1)
    + Channel0(data, width, x + 1, y + 1) - Channel0(data, width, x + 1, y - 1)

\* the threshold test taken inclusively
AboveThreshold_Inclusive(gx4, gy4) ==
    gx4 * gx4 + gy4 * gy4 >= 16 * EdgeThreshold * EdgeThreshold

\* `if (magnitude > 25)`
AboveThreshold(gx4, gy4) ==
    gx4 * gx4 + gy4 * gy4 > 16 * EdgeThreshold * EdgeThreshold

\* the loops `for (let y = 1; y < height - 1; y++)`, `for (let x = 1; x < width - 1; x++)`
InSobelLoops(width, height, x, y) ==
    x >= 1 /\ x < width - 1 /\ y >= 1 /\ y < height - 1

enhanceEdges(data, width, height) ==
    [i \in 0..(width * height - 1) |->
        LET x == i % width
            y == i \div width
        IN  IF /\ InSobelLoops(width, height, x, y)
               /\ AboveThreshold(SobelX4(data, width, x, y), SobelY4(data, width, x, y))
            THEN <<255, 255, 255, 255>>
            ELSE data[i]]

\* Pixels whose red channels put a gradient exactly on the threshold (0 and
\* 50: 2 * 50 = 4 * 25), just above it (51) and far above it; the other
\* channels differ from the red one and from 255.
EdgePalette == <<(<<0, 255, 7, 255>>), (<<50, 0, 255, 128>>), (<<51, 9, 0, 0>>)>>

ESides == 1..4

EMaxCells == 12

EFullPaletteCells == 9

EPaletteFor(cells) == IF cells <= EFullPaletteCells THEN {1, 2, 3} ELSE {1, 3}

EInit ==
    /\ eW \in ESides
    /\ eH \in ESides
    /\ eW * eH <= EMaxCells
    /\ \E choice \in [0..(eW * eH - 1) -> EPaletteFor(eW * eH)] :
           eData = [i \in 0..(eW * eH - 1) |-> EdgePalette[choice[i]]]
    /\ eInput = eData
    /\ eOutputs = <<>>
    /\ epc = "input"

EIdle ==
    /\ eW = 0
    /\ eH = 0
    /\ eData = <<>>
    /\ eInput = <<>>
    /\ eOutputs = <<>>
    /\ epc = "idle"

\* One call of enhanceEdges(data, width, height); the function writes to
\* output only, so the buffer it was given is as before.
EnhanceEdges ==
    /\ epc \in {"input", "once"}
    /\ eOutputs' = Append(eOutputs, enhanceEdges(eData, eW, eH))
    /\ epc' = IF epc = "input" THEN "once" ELSE "twice"
    /\ UNCHANGED <<eW, eH, eData, eInput>>

ENext == EnhanceEdges /\ UNCHANGED <<m1vars, ohlcvars, clsvars, segvars, scenevars, qvars, rvars, chartvars, livevars, pvars, lvars, boxvars, callvars>>

(***************************************************************************)
(* detectSupportResistanceLines: counts the dark pixels of every row,      *)
(* smooths the counts over the rows y-2..y+2 inside the image, and scans   *)
(* the rows 2..height-3 from the top for peaks.  A smoothed density is     *)
(* kept as the pair sum, count of `sum / count`; two densities and the     *)
(* threshold width * 0.2 are compared after cross-multiplication, which    *)
(* gives the same answers as the double arithmetic for these sizes.        *)
(***************************************************************************)
DarkSum == 450

HalfKernel == 2

\* `data[i] + data[i + 1] + data[i + 2] < 150 * 3`
IsDarkPixel(px) == px[1] + px[2] + px[3] < DarkSum

\* horizontalDensity[y], once the first loop is through
HorizontalDensity(data, width, y) ==
    Cardinality({x \in 0..(width - 1) : IsDarkPixel(data[y * width + x])})

\* the array horizontalDensity, rows 0..height-1 at the places 1..height
RECURSIVE HorizontalDensities(_, _, _, _)
HorizontalDensities(done, data, width, height) ==
    IF Len(done) = height THEN done
    ELSE HorizontalDensities(Append(done, HorizontalDensity(data, width, Len(done))),
                             data, width, height)

\* the rows idx = y + k, k in -halfKernel..halfKernel, with 0 <= idx < height
KernelRows(height, y) ==
    {idx \in (y - HalfKernel)..(y + HalfKernel) : idx >= 0 /\ idx < height}

RECURSIVE SumDensity(_, _)
SumDensity(density, rows) ==
    IF rows = {} THEN 0
    ELSE LET idx == CHOOSE r \in rows : TRUE
         IN  density[idx + 1] + SumDensity(density, rows \ {idx})

\* the array smoothedDensity, smoothedDensity[y] = sum / count kept as the pair
RECURSIVE SmoothedDensities(_, _, _)
SmoothedDensities(done, density, height) ==
    IF Len(done) = height THEN done
    ELSE SmoothedDensities(
             Append(done, [sum |-> SumDensity(density, KernelRows(height, Len(done))),
                           count |-> Cardinality(KernelRows(height, Len(done)))]),
             density, height)

\* a > b for two smoothed densities
DensityGreater(a, b) == a.sum * b.count > b.sum * a.count

\* smoothedDensity[y] > peakThreshold, peakThreshold = width * 0.2
AbovePeakThreshold(density, width) == 5 * density.sum > width * density.count

\* Math.floor in place of Math.ceil
MinPeakDistance_Floor(height) == (3 * height) \div 100

\* minPeakDistance = Math.ceil(height * 0.03)
MinPeakDistance(height) == (3 * height + 99) \div 100

\* the four comparisons of the local-maximum test, y in 2..height-3
IsLocalMaximum(smoothed, y) ==
    /\ DensityGreater(smoothed[y + 1], smoothed[y])
    /\ DensityGreater(smoothed[y + 1], smoothed[y - 1])
    /\ DensityGreater(smoothed[y + 1], smoothed[y + 2])
    /\ DensityGreater(smoothed[y + 1], smoothed[y + 3])

\* isFarEnough after the loop over peaks
IsFarEnough(peaks, y, minPeakDistance) ==
    \A i \in 1..Len(peaks) :
        ~((IF peaks[i] >= y THEN peaks[i] - y ELSE y - peaks[i]) < minPeakDistance)

\* the loop `for (let y = 2; y < height - 2; y++)` from row y on
RECURSIVE ScanPeaks(_, _, _, _, _)
ScanPeaks(y, peaks, smoothed, width, height) ==
    IF ~(y < height - 2) THEN peaks
    ELSE IF /\ AbovePeakThreshold(smoothed[y + 1], width)
            /\ IsLocalMaximum(smoothed, y)
            /\ IsFarEnough(peaks, y, MinPeakDistance(height))
         THEN ScanPeaks(y + 1, Append(peaks, y), smoothed, width, height)
         ELSE ScanPeaks(y + 1, peaks, smoothed, width, height)

\* the line pushed for the peak y
PeakLine(smoothed, width, y) ==
    [startX |-> 0, startY |-> y, endX |-> width - 1, endY |-> y,
     confidence |-> Min(100, RoundDiv(100 * smoothed[y + 1].sum, smoothed[y + 1].count * width))]

detectSupportResistanceLines(data, width, height) ==
    LET smoothed == SmoothedDensities(<<>>, HorizontalDensities(<<>>, data, width, height), height)
        peaks == ScanPeaks(2, <<>>, smoothed, width, height)
    IN  [i \in 1..Len(peaks) |-> PeakLine(smoothed, width, peaks[i])]

\* Bitmaps given row by row: row first + k - 1 has its leftmost darkCounts[k]
\* pixels just dark (sum 449), every other pixel is just not dark (sum 450).
JustDark == <<149, 150, 150>>

JustNotDark == <<150, 150, 150>>

DarkCountOf(img, y) ==
    IF y >= img.first /\ y < img.first + Len(img.darkCounts)
    THEN img.darkCounts[y - img.first + 1]
    ELSE 0

LineData(img) ==
    [i \in 0..(img.width * img.height - 1) |->
        IF i % img.width < DarkCountOf(img, i \div img.width) THEN JustDark ELSE JustNotDark]

LineWidth == 5

DarkCounts == {0, 2, 5}

LMinHeight == 5

LMaxSmallHeight == 7

LWindowRows == 8

LMaxDarkRows == 4

\* every bitmap of 5..7 rows, and bitmaps of 100 and 101 rows (minimum
\* spacing 3 and 4) that are light but for up to four of the rows 8..15
LImages ==
    UNION {{[width |-> LineWidth, height |-> h, first |-> 0, darkCounts |-> c] :
                c \in [1..h -> DarkCounts]} : h \in LMinHeight..LMaxSmallHeight}
    \cup
    {[width |-> LineWidth, height |-> h, first |-> 8, darkCounts |-> c] :
        h \in {100, 101},
        c \in {d \in [1..LWindowRows -> DarkCounts] :
                  Cardinality({k \in 1..LWindowRows : d[k] # 0}) <= LMaxDarkRows}}

LInit ==
    /\ lImage \in LImages
    /\ lLines = <<>>
    /\ lpc = "input"

LIdle ==
    /\ lImage = Undefined
    /\ lLines = <<>>
    /\ lpc = "idle"

DetectLines ==
    /\ lpc = "input"
    /\ lLines' = detectSupportResistanceLines(LineData(lImage), lImage.width, lImage.height)
    /\ lpc' = "done"
    /\ UNCHANGED lImage

LNext == DetectLines /\ UNCHANGED <<m1vars, ohlcvars, clsvars, segvars, scenevars, qvars, rvars, chartvars, livevars, pvars, evars, boxvars, callvars>>

(***************************************************************************)
(* analyzeCandleSegment on boxes of mixed pixels.  A case gives the box's  *)
(* width and height and how many of its pixels are green, red, black and   *)
(* white; the rest are mid-grey.  The box lies one pixel inside an image   *)
(* whose border is green, and its pixels are laid out in raster order.     *)
(* The box areas are not multiples of 8, so 100 * count / area is never    *)
(* half-way between two integers and Math.round of the double product      *)
(* colorRatio * densityRatio * 100 is the exact rounding.                  *)
(***************************************************************************)

\* largest box area
MaxBoxArea == 20

BoxSizes ==
    {sz \in {<<4, 3>>, <<5, 4>>, <<1, 4>>, <<3, 3>>, <<2, 5>>, <<3, 7>>} :
        sz[1] * sz[2] <= MaxBoxArea}

BoxCase(sz, g, r, k, wh) ==
    [w |-> sz[1], h |-> sz[2], green |-> g, red |-> r, black |-> k, white |-> wh]

\* the bitmap of a case, (w + 2) x (h + 2) pixels
BoxData(bc) ==
    [i \in 0..((bc.w + 2) * (bc.h + 2) - 1) |->
        LET x == i % (bc.w + 2)
            y == i \div (bc.w + 2)
            k == (y - 1) * bc.w + (x - 1)
        IN  IF x = 0 \/ y = 0 \/ x = bc.w + 1 \/ y = bc.h + 1 THEN Green
            ELSE IF k < bc.green THEN Green
            ELSE IF k < bc.green + bc.red THEN Red
            ELSE IF k < bc.green + bc.red + bc.black THEN Black
            ELSE IF k < bc.green + bc.red + bc.black + bc.white THEN White
            ELSE Gray]

BoxSegment(bc) == [x1 |-> 1, y1 |-> 1, x2 |-> bc.w, y2 |-> bc.h, area |-> bc.w * bc.h]

BoxInit ==
    /\ \E sz \in BoxSizes :
          \E g \in 0..(sz[1] * sz[2]) :
             \E r \in 0..(sz[1] * sz[2] - g) :
                \E k \in 0..(sz[1] * sz[2] - g - r) :
                   \E wh \in 0..(sz[1] * sz[2] - g - r - k) :
                      boxCase = BoxCase(sz, g, r, k, wh)
    /\ boxResult = NoCandle
    /\ boxpc = "input"

BoxIdle ==
    /\ boxCase = [w |-> 1, h |-> 1, green |-> 0, red |-> 0, black |-> 0, white |-> 0]
    /\ boxResult = NoCandle
    /\ boxpc = "idle"

\* one call of analyzeCandleSegment
AnalyzeBox ==
    /\ boxpc = "input"
    /\ boxResult' = analyzeCandleSegment(BoxSegment(boxCase), BoxData(boxCase),
                                         boxCase.w + 2, boxCase.h + 2)
    /\ boxpc' = "done"
    /\ UNCHANGED boxCase

BoxNext == AnalyzeBox /\ UNCHANGED <<m1vars, ohlcvars, clsvars, segvars, scenevars, qvars, rvars, chartvars, livevars, pvars, evars, lvars, callvars>>

(***************************************************************************)
(* validateM1Context called several times in a row.  The module has no     *)
(* variable outside its functions and the functions only read their        *)
(* arguments (slice, map, filter, reduce and Math.max / Math.min over      *)
(* copies), so a call's result is a function of its arguments and the      *)
(* argument objects are the same after the call.                           *)
(***************************************************************************)

\* how many calls are made in a row
MaxCalls == 3

CallArguments(cs, sig, vol, conf) ==
    [candles |-> cs, signal |-> sig, volumeData |-> vol, confluences |-> conf]

CallInputs ==
    { CallArguments(MakeCandles(n, Doji, Doji, Doji, SpinUp, SpinDown, c3), sig,
                    [defined |-> TRUE, abnormal |-> TRUE, trend |-> "increasing"],
                    Confluences(<<Level(10060, "resistance", "fraco"),
                                  Level(10025, "resistance", "forte")>>)) :
        n \in {MinCandles - 1, MinCandles}, c3 \in {Doji, StrongBull, StrongBear},
        sig \in {"compra", "venda"} }

\* the rejection reasons kept in an array shared by all calls
CallResult_SharedReasons(args, earlier) ==
    LET own == validateM1Context(args.candles, args.signal, args.volumeData, args.confluences)
    IN  IF earlier = <<>> THEN own
        ELSE [own EXCEPT !.rejectionReasons =
                  earlier[Len(earlier)].result.rejectionReasons \o own.rejectionReasons]

\* what a call returns after the calls in earlier
CallResult(args, earlier) ==
    validateM1Context(args.candles, args.signal, args.volumeData, args.confluences)

CallInit ==
    /\ callArgs \in CallInputs
    /\ callLog = <<>>
    /\ callpc = "input"

CallIdle ==
    /\ callArgs = Undefined
    /\ callLog = <<>>
    /\ callpc = "idle"

\* one call of validateM1Context on the caller's objects
CallValidate ==
    /\ callpc = "input"
    /\ callArgs' = callArgs
    /\ callLog' = Append(callLog, [given |-> callArgs, left |-> callArgs',
                                   result |-> CallResult(callArgs, callLog)])
    /\ callpc' = "returned"

\* the caller prepares another call
NextCall ==
    /\ callpc = "returned"
    /\ Len(callLog) < MaxCalls
    /\ callArgs' \in CallInputs
    /\ callpc' = "input"
    /\ UNCHANGED callLog

CallOthers == <<m1vars, ohlcvars, clsvars, segvars, scenevars, qvars, rvars, chartvars, livevars, pvars, evars, lvars, boxvars>>

CallNext ==
    \/ CallValidate /\ UNCHANGED CallOthers
    \/ NextCall /\ UNCHANGED CallOthers

LateIdle == SceneIdle /\ QIdle /\ RIdle /\ ChartIdle /\ LiveIdle /\ PIdle /\ EIdle /\ LIdle /\ BoxIdle /\ CallIdle

InitOHLC == OHLCInit /\ M1Idle /\ ClassIdle /\ SegIdle /\ LateIdle

SpecOHLC == InitOHLC /\ [][OHLCNext]_vars

InitClass == ClassInit /\ M1Idle /\ OHLCIdle /\ SegIdle /\ LateIdle

SpecClass == InitClass /\ [][ClassNext]_vars

InitSeg == SegInit /\ M1Idle /\ OHLCIdle /\ ClassIdle /\ LateIdle

SpecSeg == InitSeg /\ [][SegNext]_vars

InitScene == SceneInit /\ M1Idle /\ OHLCIdle /\ ClassIdle /\ SegIdle /\ QIdle /\ RIdle /\ ChartIdle /\ LiveIdle /\ PIdle /\ EIdle /\ LIdle /\ BoxIdle /\ CallIdle

InitQuality == QInit /\ M1Idle /\ OHLCIdle /\ ClassIdle /\ SegIdle /\ SceneIdle /\ RIdle /\ ChartIdle /\ LiveIdle /\ PIdle /\ EIdle /\ LIdle /\ BoxIdle /\ CallIdle

SpecQuality == InitQuality /\ [][QNext]_vars

InitRegion == RInit /\ M1Idle /\ OHLCIdle /\ ClassIdle /\ SegIdle /\ SceneIdle /\ QIdle /\ ChartIdle /\ LiveIdle /\ PIdle /\ EIdle /\ LIdle /\ BoxIdle /\ CallIdle

SpecRegion == InitRegion /\ [][RNext]_vars

InitChart == ChartInit /\ M1Idle /\ OHLCIdle /\ ClassIdle /\ SegIdle /\ SceneIdle /\ QIdle /\ RIdle /\ LiveIdle /\ PIdle /\ EIdle /\ LIdle /\ BoxIdle /\ CallIdle

SpecChart == InitChart /\ [][ChartNext]_vars

InitLive == LiveInit /\ M1Idle /\ OHLCIdle /\ ClassIdle /\ SegIdle /\ SceneIdle /\ QIdle /\ RIdle /\ ChartIdle /\ PIdle /\ EIdle /\ LIdle /\ BoxIdle /\ CallIdle

SpecLive == InitLive /\ [][LiveNext]_vars

\* detectChartInFrame resolves on a 100 ms timer, and the promises of
\* enhanceImageForAnalysis and analyzeChart settle: a suspended call resumes.
SpecLiveFair ==
    /\ InitLive
    /\ [][LiveNext]_vars
    /\ WF_vars(DetectDone /\ UNCHANGED LiveOthers)
    /\ WF_vars(EnhanceDone /\ UNCHANGED LiveOthers)
    /\ WF_vars(AnalyzeDone /\ UNCHANGED LiveOthers)

InitLiveLater == LiveLaterInit /\ M1Idle /\ OHLCIdle /\ ClassIdle /\ SegIdle /\ SceneIdle /\ QIdle /\ RIdle /\ ChartIdle /\ PIdle /\ EIdle /\ LIdle /\ BoxIdle /\ CallIdle

SpecLiveLater == InitLiveLater /\ [][LiveNext]_vars

InitProcess == PInit /\ M1Idle /\ OHLCIdle /\ ClassIdle /\ SegIdle /\ SceneIdle /\ QIdle /\ RIdle /\ ChartIdle /\ LiveIdle /\ EIdle /\ LIdle /\ BoxIdle /\ CallIdle

SpecProcess == InitProcess /\ [][PNext]_vars

InitEdges == EInit /\ M1Idle /\ OHLCIdle /\ ClassIdle /\ SegIdle /\ SceneIdle /\ QIdle /\ RIdle /\ ChartIdle /\ LiveIdle /\ PIdle /\ LIdle /\ BoxIdle /\ CallIdle

SpecEdges == InitEdges /\ [][ENext]_vars

InitLines == LInit /\ M1Idle /\ OHLCIdle /\ ClassIdle /\ SegIdle /\ SceneIdle /\ QIdle /\ RIdle /\ ChartIdle /\ LiveIdle /\ PIdle /\ EIdle /\ BoxIdle /\ CallIdle

SpecLines == InitLines /\ [][LNext]_vars

InitBox == BoxInit /\ M1Idle /\ OHLCIdle /\ ClassIdle /\ SegIdle /\ SceneIdle /\ QIdle /\ RIdle /\ ChartIdle /\ LiveIdle /\ PIdle /\ EIdle /\ LIdle /\ CallIdle

SpecBox == InitBox /\ [][BoxNext]_vars

InitCalls == CallInit /\ M1Idle /\ OHLCIdle /\ ClassIdle /\ SegIdle /\ SceneIdle /\ QIdle /\ RIdle /\ ChartIdle /\ LiveIdle /\ PIdle /\ EIdle /\ LIdle /\ BoxIdle

SpecCalls == InitCalls /\ [][CallNext]_vars

SpecScene == InitScene /\ [][SceneNext]_vars

Init == M1Init /\ OHLCIdle /\ ClassIdle /\ SegIdle /\ LateIdle

Next == M1Next

Spec == Init /\ [][Next]_vars

(***************************************************************************)
(* Properties of validateM1Context                                         *)
(***************************************************************************)

\* the call went past both early returns
FullEvaluation ==
    /\ m1pc = "done"
    /\ Len(candles) >= 20
    /\ signal # "neutro"
    /\ validation.trendDirection # "lateral"

\* C2: with fewer than 20 candles (any signal) or a neutral signal (any
\* number of candles) the result is skip, score 0, not valid for entry.
C2_EarlyRejectIsSkip ==
    (m1pc = "done" /\ (Len(candles) < 20 \/ signal = "neutro")) =>
        /\ validation.recommendation = "skip"
        /\ validation.contextScore = 0
        /\ validation.isValidForEntry = FALSE

\* exactly 19 candles, a buy signal and inputs that would score on a full evaluation
C2_Witness ==
    /\ m1pc = "done"
    /\ Len(candles) = 19
    /\ signal = "compra"
    /\ RawScore(candles, signal, volumeData, confluences) >= 70
    /\ validation.recommendation = "skip"

\* C3: with 20 or more candles and a non-neutral signal the trend is Flat
\* exactly when, over the last 10 candles, range% < 0.1 or |change%| < 0.05;
\* 25 candles from close 100.00 to close 100.03 within an overall range of
\* 0.08% of the last close are Flat and skipped.
C3_FlatOverLastTen ==
    (m1pc = "done" /\ Len(candles) >= 20 /\ signal # "neutro") =>
        LET n == Len(candles)
            firstClose == candles[n - 9].close
            lastClose == candles[n].close
            maxHigh == MaxOf({candles[i].high : i \in (n - 9)..n})
            minLow == MinOf({candles[i].low : i \in (n - 9)..n})
            allHigh == MaxOf({candles[i].high : i \in 1..n})
            allLow == MinOf({candles[i].low : i \in 1..n})
        IN  /\ validation.trendDirection = "lateral"
                <=> \/ (maxHigh - minLow) * 1000 < lastClose
                    \/ Abs(lastClose - firstClose) * 2000 < firstClose
            /\ ( /\ n = 25
                 /\ candles[1].close = 10000
                 /\ lastClose = 10003
                 /\ (allHigh - allLow) * 100000 <= 8 * lastClose )
               => /\ validation.trendDirection = "lateral"
                  /\ validation.recommendation = "skip"

\* the 25-candle example: closes 100.00 -> 100.03, overall range 8 ticks
C3_Witness ==
    /\ m1pc = "done"
    /\ signal = "compra"
    /\ Len(candles) = 25
    /\ candles[1].close = 10000
    /\ candles[16].close = 10000
    /\ candles[25].close = 10003
    /\ MaxOf({candles[i].high : i \in 1..25}) - MinOf({candles[i].low : i \in 1..25}) = 8
    /\ validation.trendDirection = "lateral"
    /\ validation.recommendation = "skip"

\* C4: a Flat trend gives score 0, skip, not valid and exactly one rejection
\* reason, whatever the signal direction and the other inputs are.
C4_FlatIsHardReject ==
    (m1pc = "done" /\ validation.trendDirection = "lateral") =>
        /\ validation.contextScore = 0
        /\ validation.recommendation = "skip"
        /\ validation.isValidForEntry = FALSE
        /\ Len(validation.rejectionReasons) = 1

\* a Flat window whose other checks are all favourable
C4_Witness ==
    /\ m1pc = "done"
    /\ Len(candles) >= 20
    /\ signal = "compra"
    /\ detectTrend(SliceLast(candles, 10)) = "lateral"
    /\ checkStrongCandleConfirmation(SliceLast(candles, 3), signal)
    /\ checkSupportResistanceLevel(candles, signal, confluences)
    /\ checkVolumeConfirmation(volumeData, signal)
    /\ checkSpaceToRun(candles, signal, confluences)
    /\ validation.recommendation = "skip"

\* C5: on a full evaluation, Enter iff reported score >= 70 and no reasons;
\* Wait iff not Enter, reported score >= 50 and at most one reason; Skip
\* otherwise; the unclamped and the clamped score decide alike.
C5_RecommendationRule ==
    FullEvaluation =>
        LET score == validation.contextScore
            n == Len(validation.rejectionReasons)
            raw == RawScore(candles, signal, volumeData, confluences)
            enter == score >= 70 /\ n = 0
            wait == ~enter /\ score >= 50 /\ n <= 1
        IN  /\ validation.recommendation = "enter" <=> enter
            /\ validation.recommendation = "wait" <=> wait
            /\ validation.recommendation = "skip" <=> (~enter /\ ~wait)
            /\ (raw >= 70 <=> score >= 70)
            /\ (raw >= 50 <=> score >= 50)

\* a Wait decided at exactly 50 with one reason
C5_Witness ==
    /\ FullEvaluation
    /\ validation.contextScore = 50
    /\ Len(validation.rejectionReasons) = 1
    /\ validation.recommendation = "wait"

\* C6: the reported contextScore is an integer in [0,100] for every input,
\* while the unclamped sum lies in [-50,115].
C6_ScoreInRange ==
    m1pc = "done" =>
        /\ validation.contextScore \in 0..100
        /\ FullEvaluation =>
               RawScore(candles, signal, volumeData, confluences) \in -50..115

\* the largest sum, 115, reported as 100
C6_Witness ==
    /\ FullEvaluation
    /\ RawScore(candles, signal, volumeData, confluences) = 115
    /\ validation.contextScore = 100

\* the smallest sum, -50, reported as 0
C6_WitnessLow ==
    /\ FullEvaluation
    /\ RawScore(candles, signal, volumeData, confluences) = -50
    /\ validation.contextScore = 0

\* C7: on a full evaluation the reported score is the clamped sum of the
\* terms selected by the sub-check booleans of the same record.
C7_ScoreFormula ==
    FullEvaluation =>
        LET v == validation
            aligned == \/ v.trendDirection = "alta" /\ signal = "compra"
                       \/ v.trendDirection = "baixa" /\ signal = "venda"
            sum == 25 + (IF v.pullbackDetected THEN 20 ELSE 0)
                      + (IF v.strongCandleConfirmation THEN 25 ELSE 0)
                      - (IF v.indecisionCandles THEN 30 ELSE 0)
                      + (IF v.supportResistanceLevel THEN 20 ELSE 0)
                      + (IF v.volumeConfirmation THEN 15 ELSE 0)
                      - (IF v.spaceToRun THEN 0 ELSE 25)
                      + (IF aligned THEN 10 ELSE -20)
        IN  v.contextScore = (IF sum < 0 THEN 0 ELSE IF sum > 100 THEN 100 ELSE sum)

\* a mixed record: penalties and bonuses together, score not clamped
C7_Witness ==
    /\ FullEvaluation
    /\ validation.indecisionCandles
    /\ validation.strongCandleConfirmation
    /\ validation.volumeConfirmation
    /\ ~validation.spaceToRun
    /\ validation.contextScore \in 1..99

(***************************************************************************)
(* Properties of estimateOHLCValues                                        *)
(***************************************************************************)

OHLCConsistent(c) ==
    /\ PriceGeq(c.high, c.open)
    /\ PriceGeq(c.high, c.close)
    /\ PriceLeq(c.low, c.open)
    /\ PriceLeq(c.low, c.close)

\* C1: after estimateOHLCValues ran on a non-empty list, every candle has
\* high >= open, high >= close, low <= open and low <= close.
C1_OHLCInvariant ==
    (ohlcpc = "done" /\ Len(ohlcCandles) >= 1) =>
        \A i \in 1..Len(ohlcCandles) : OHLCConsistent(ohlcCandles[i])

\* a green and a red candle priced in one call, each with a body
C1_Witness ==
    /\ ohlcpc = "done"
    /\ Len(ohlcCandles) = 2
    /\ ohlcCandles[1].color = "verde"
    /\ ohlcCandles[2].color = "vermelho"
    /\ ~PriceGeq(ohlcCandles[1].open, ohlcCandles[1].close)
    /\ ~PriceGeq(ohlcCandles[2].close, ohlcCandles[2].open)
    /\ OHLCConsistent(ohlcCandles[1])
    /\ OHLCConsistent(ohlcCandles[2])

(***************************************************************************)
(* Properties of the pixel classifier                                      *)
(***************************************************************************)

\* C10: every pixel gets exactly one of the five labels; the green and the
\* red condition exclude each other and come before the luminance labels;
\* classifying the same pixel again gives the same label.
C10_ClassifierTotalDeterministic ==
    LET r == clsPixel[1]
        g == clsPixel[2]
        b == clsPixel[3]
        bullish == 5 * g > 6 * r /\ 5 * g > 6 * b /\ g > 70
        bearish == 5 * r > 6 * g /\ 5 * r > 6 * b /\ r > 70
        dark == r + g + b < 90
        light == r + g + b > 660
    IN  /\ ~(bullish /\ bearish)
        /\ \A i \in 1..Len(clsLabels) :
               /\ clsLabels[i] \in {None, Verde, Vermelho, Preto, Branco}
               /\ clsLabels[i] = Verde <=> bullish
               /\ clsLabels[i] = Vermelho <=> bearish
               /\ clsLabels[i] = Preto <=> (~bullish /\ ~bearish /\ dark)
               /\ clsLabels[i] = Branco <=> (~bullish /\ ~bearish /\ light)
               /\ clsLabels[i] = None <=> (~bullish /\ ~bearish /\ ~dark /\ ~light)
        /\ \A i, j \in 1..Len(clsLabels) : clsLabels[i] = clsLabels[j]

\* a green pixel dark enough for the luminance label, classified twice
C10_Witness ==
    /\ clsPixel = <<0, 71, 0>>
    /\ clsLabels = <<Verde, Verde>>

\* a green pixel bright enough for the luminance label
C10_WitnessLight ==
    /\ clsPixel = <<212, 255, 212>>
    /\ clsLabels = <<Verde, Verde>>

(***************************************************************************)
(* Properties of segmentCandlePatterns                                     *)
(***************************************************************************)

RECURSIVE SumAreas(_)
SumAreas(segs) == IF segs = <<>> THEN 0 ELSE Head(segs).area + SumAreas(Tail(segs))

\* the pixels the k-th flood fill took
CompPixels(k) == {i \in DOMAIN compOf : compOf[i] = k}

\* C8: within one call every pixel index is added to visited at most once
\* and dequeued at most once, every component holds pixels of one class,
\* and the areas of the segments sum to at most the number of classified
\* (non-background) pixels.
C8_VisitedOnce ==
    /\ \A i \in DOMAIN addCount : addCount[i] <= 1 /\ deqCount[i] <= 1
    /\ \A k \in 1..compCount : Cardinality({colorMap[i] : i \in CompPixels(k)}) = 1
    /\ SumAreas(segments) <= Cardinality({i \in DOMAIN colorMap : colorMap[i] # None})

\* a finished call over an image without background: two components of
\* different classes side by side, one of them emitted, each pixel added and
\* dequeued exactly once
C8_Witness ==
    /\ segpc = "done"
    /\ compCount = 2
    /\ Len(segments) = 1
    /\ \A i \in DOMAIN colorMap :
           colorMap[i] # None /\ addCount[i] = 1 /\ deqCount[i] = 1

Adjacent8(i, j, w) ==
    /\ i # j
    /\ Abs((i % w) - (j % w)) <= 1
    /\ Abs((i \div w) - (j \div w)) <= 1

\* the 8-connected same-class region around S
RECURSIVE Region8(_, _, _)
Region8(S, cm, w) ==
    LET T == S \cup {j \in DOMAIN cm : \E i \in S : Adjacent8(i, j, w) /\ cm[j] = cm[i]}
    IN  IF T = S THEN S ELSE Region8(T, cm, w)

\* C9: a segment is emitted for a component iff it has 5 to 2000 pixels and
\* its bounding box spans more than one column and more than one row; the
\* segment is that bounding box and pixel count; the components are the
\* 8-connected same-class regions, so 8-adjacent pixels of one class share
\* a component.  (The regions are recomputed independently for images of up
\* to 16 pixels; adjacency is checked for all.)
C9_SegmentEmittedIff ==
    segpc = "done" =>
        /\ Len(emitted) = Len(segments)
        /\ \A i \in DOMAIN colorMap : colorMap[i] # None <=> compOf[i] # 0
        /\ \A i, j \in DOMAIN colorMap :
               (Adjacent8(i, j, segW) /\ Abs(i - j) <= segW + 1
                /\ colorMap[i] # None /\ colorMap[i] = colorMap[j])
                   => compOf[i] = compOf[j]
        /\ segW * segH <= 16 =>
               \A k \in 1..compCount :
                   CompPixels(k) = Region8({MinOf(CompPixels(k))}, colorMap, segW)
        /\ \A k \in 1..compCount :
               LET P == CompPixels(k)
                   xs == {i % segW : i \in P}
                   ys == {i \div segW : i \in P}
                   keep == /\ Cardinality(P) >= 5
                           /\ Cardinality(P) <= 2000
                           /\ MaxOf(xs) > MinOf(xs)
                           /\ MaxOf(ys) > MinOf(ys)
               IN  /\ keep <=> \E n \in 1..Len(emitted) : emitted[n] = k
                   /\ \A n \in 1..Len(emitted) :
                          emitted[n] = k =>
                              segments[n] = [x1 |-> MinOf(xs), y1 |-> MinOf(ys),
                                             x2 |-> MaxOf(xs), y2 |-> MaxOf(ys),
                                             area |-> Cardinality(P)]
        /\ \A n \in 1..Len(segments) :
               segments[n].x2 > segments[n].x1 /\ segments[n].y2 > segments[n].y1

\* a component of exactly 5 pixels over two rows, emitted
C9_Witness ==
    /\ segpc = "done"
    /\ \E n \in 1..Len(segments) : segments[n].area = 5

\* a component of exactly 2000 pixels, emitted
C9_WitnessUpper ==
    /\ segpc = "done"
    /\ \E n \in 1..Len(segments) : segments[n].area = 2000

\* a component of 2001 pixels, dropped
C9_WitnessTooLarge ==
    /\ segpc = "done"
    /\ segments = <<>>
    /\ Cardinality(CompPixels(1)) = 2001

\* five pixels of one class in a single row, dropped
C9_WitnessSingleRow ==
    /\ segpc = "done"
    /\ segments = <<>>
    /\ segH = 1
    /\ Cardinality(CompPixels(1)) >= 5

\* two pixels joined only by a diagonal step, in one emitted component
C9_WitnessDiagonal ==
    /\ segpc = "done"
    /\ segW = 3
    /\ segH = 3
    /\ Len(segments) = 1
    /\ colorMap[1] = None
    /\ colorMap[3] = None
    /\ colorMap[0] # None
    /\ compOf[0] = compOf[4]
    /\ compOf[0] = emitted[1]

(***************************************************************************)
(* Properties of analyzeCandleSegment over segmentCandlePatterns           *)
(***************************************************************************)

RectSegment(rc) ==
    [x1 |-> rc.x, y1 |-> rc.y, x2 |-> rc.x + rc.w - 1, y2 |-> rc.y + rc.h - 1,
     area |-> rc.w * rc.h]

RectColor(rc) == IF rc.color = Green THEN "verde" ELSE "vermelho"

\* the candle analyzeCandleSegment is to report for a rectangle
AcceptedAs(a, rc) ==
    /\ a.accepted
    /\ a.confidence >= 20
    /\ a.color = RectColor(rc)
    /\ a.x = rc.x /\ a.y = rc.y /\ a.width = rc.w /\ a.height = rc.h

\* a segment was returned for the rectangle and analyzeCandleSegment accepts it
FoundAndAccepted(rc) ==
    \E n \in 1..Len(sceneSegments) :
        AcceptedAs(analyzeCandleSegment(sceneSegments[n], SceneData(scene), scene.w, scene.h), rc)

\* the rectangles of the claim: 40 wide, 100, 120 or 150 high
ClaimedRect(rc) == rc.w = 40 /\ rc.h \in {100, 120, 150}

C11_WitnessSmall ==
    /\ scenepc = "done"
    /\ scene \in TripleScenes
    /\ scene.bg = DarkGray
    /\ Len(sceneSegments) = 3

(***************************************************************************)
(* Properties of checkImageQuality                                         *)
(***************************************************************************)

Luminances(img) ==
    LET data == ImageData(img)
    IN  {Luminance1000(data[i]) : i \in 0..(img.w * img.h - 1)}

\* C12: on a loaded image the contrast is reported adequate iff the largest
\* minus the smallest pixel luminance exceeds 50; an image of one colour is
\* reported with insufficient contrast and isGoodQuality = false, whatever
\* its resolution and noise.
C12_ContrastRule ==
    (qpc = "done" /\ qImage.outcome = "loaded") =>
        /\ qResult.details.defined
        /\ qResult.details.contrast = "Adequado" <=>
               (\E a, b \in Luminances(qImage) : a - b > 50000)
        /\ qResult.details.contrast \in {"Adequado", "Insuficiente"}
        /\ qResult.details.contrast = "Insuficiente" =>
               /\ ~qResult.isGoodQuality
               /\ \E k \in 1..Len(qResult.message) : qResult.message[k] = " Contraste insuficiente."
        /\ (Cardinality(Luminances(qImage)) = 1) => qResult.details.contrast = "Insuficiente"

\* a one-colour image of good resolution and low noise, judged not good
C12_Witness ==
    /\ qpc = "done"
    /\ qImage.w = MinQualityWidth
    /\ qImage.h = MinQualityHeight
    /\ qImage.pixels = Uniform(Grey(128))
    /\ Cardinality(Luminances(qImage)) = 1
    /\ qResult.details.resolution = "Boa"
    /\ qResult.details.noise = "Baixo"
    /\ qResult.details.contrast = "Insuficiente"
    /\ ~qResult.isGoodQuality

\* a contrast of exactly 50 is insufficient
C12_WitnessLimit ==
    /\ qpc = "done"
    /\ qImage.outcome = "loaded"
    /\ Luminances(qImage) = {0, 50000}
    /\ qResult.details.contrast = "Insuficiente"

\* an image judged good
C12_WitnessGood ==
    /\ qpc = "done"
    /\ qResult.isGoodQuality

(***************************************************************************)
(* Properties of detectChartRegion                                         *)
(***************************************************************************)

\* the image loaded and a canvas context existed
RegionScanned == rpc = "done" /\ rImage.outcome \in {"loaded", "throws"}

\* the centred 85% rectangle, flagged by the error text as assumed
IsAssumedDefault ==
    /\ rResult.success
    /\ rResult.hasData
    /\ rResult.data = [x |-> 75 * rImage.w, y |-> 75 * rImage.h,
                       width |-> 850 * rImage.w, height |-> 850 * rImage.h]
    /\ rResult.error # ""

\* C13: for an image of one colour (loaded, canvas context available) the
\* result is the centred rectangle of 0.85 of each dimension at 0.075 of
\* each dimension, flagged as assumed; also for mid-grey.
C13_UniformFallsBack ==
    (RegionScanned /\ rImage.pixels.kind = "uniform") => IsAssumedDefault

\* a mid-grey image large enough for a detected box, given the default
C13_Witness ==
    /\ RegionScanned
    /\ rImage.pixels = Uniform(Grey(128))
    /\ rImage.w = 200
    /\ rImage.h = 150
    /\ rResult.data.width = 170000
    /\ rResult.data.x = 15000
    /\ rResult.error # ""

\* the bounding box of the chart-like pixels of the bitmap, grown by the
\* margin and clipped to the image: <<left, top, width, height>>
ChartLikeBox(img) ==
    LET data == ImageData(img)
        n == img.w * img.h
        hits == {i \in 0..(n - 1) :
                    ChartLike([defined |-> TRUE, r |-> data[i][1], g |-> data[i][2],
                               b |-> data[i][3]])}
        xs == {i % img.w : i \in hits}
        ys == {i \div img.w : i \in hits}
        left == IF hits = {} THEN img.w ELSE MaxOf({0, MinOf(xs) - Margin(img.w)})
        top == IF hits = {} THEN img.h ELSE MaxOf({0, MinOf(ys) - Margin(img.h)})
        right == IF hits = {} THEN 0 ELSE MinOf({img.w, MaxOf(xs) + Margin(img.w)})
        bottom == IF hits = {} THEN 0 ELSE MinOf({img.h, MaxOf(ys) + Margin(img.h)})
    IN  <<left, top, right - left, bottom - top>>

\* C14 as stated: once the image has loaded and a canvas context exists the
\* result is a rectangle: the bounding box of the chart-like pixels (with
\* margin, clipped) exactly when it is more than 100 wide and high and
\* covers more than 30% of each dimension, and the centred 85% rectangle
\* flagged as assumed otherwise.
C14_DetectedBoxOrDefault ==
    (rpc = "done" /\ rImage.outcome = "loaded") =>
        LET box == ChartLikeBox(rImage)
        IN  /\ rResult.success
            /\ rResult.hasData
            /\ IF box[3] > 100 /\ box[4] > 100
                  /\ 10 * box[3] > 3 * rImage.w /\ 10 * box[4] > 3 * rImage.h
               THEN /\ rResult.data = [x |-> 1000 * box[1], y |-> 1000 * box[2],
                                       width |-> 1000 * box[3], height |-> 1000 * box[4]]
                    /\ rResult.error = ""
               ELSE IsAssumedDefault

(***************************************************************************)
(* Properties of detectCandles and analyzeChart                            *)
(***************************************************************************)

\* open, high, low, close > 0, high >= max(open, close), low <= min(open, close)
SatisfiesOHLC(candle) ==
    /\ candle.open > 0 /\ candle.high > 0 /\ candle.low > 0 /\ candle.close > 0
    /\ candle.high >= candle.open /\ candle.high >= candle.close
    /\ candle.low <= candle.open /\ candle.low <= candle.close

AllSatisfyOHLC(list) == \A k \in 1..Len(list) : SatisfiesOHLC(list[k])

\* C15 as stated: every candle returned by analyzeChart and by detectCandles
\* satisfies the OHLC invariant, and no analyzer is given a candle that
\* violates it, also when every extracted candle is invalid.
C15_OnlyValidCandles ==
    /\ chartpc = "done" =>
           /\ AllSatisfyOHLC(chartResult.candles)
           /\ \A call \in chartInvoked : AllSatisfyOHLC(call[2])
    /\ detectpc = "done" => AllSatisfyOHLC(detected)

\* C16: when the extractor yields no candle, analyzeChart returns (the
\* promise does not reject) empty candles, patterns, scalping signals and
\* entry recommendations, operating score 0 and at least one warning, and
\* calls no analyzer; detectCandles returns the empty list for zero candles
\* and when the extractor throws.
C16_EmptyExtraction ==
    /\ (chartpc = "done" /\ ~extraction.throws /\ extraction.candles = <<>>) =>
           /\ ~chartResult.rejected
           /\ chartResult.candles = <<>>
           /\ chartResult.patterns = <<>>
           /\ chartResult.scalpingSignals = <<>>
           /\ chartResult.entryRecommendations = <<>>
           /\ chartResult.operatingScore = 0
           /\ chartResult.warnings # <<>>
           /\ chartInvoked = {}
    /\ (detectpc = "done" /\ (extraction.throws \/ extraction.candles = <<>>)) =>
           detected = <<>>

\* both calls finished on an empty extraction
C16_Witness ==
    /\ chartpc = "done"
    /\ detectpc = "done"
    /\ ~extraction.throws
    /\ extraction.candles = <<>>
    /\ chartResult.warnings # <<>>
    /\ detected = <<>>

\* detectCandles finished after the extractor threw
C16_WitnessThrows ==
    /\ detectpc = "done"
    /\ extraction.throws
    /\ detected = <<>>

\* an analysis that did call the analyzers
C16_WitnessAnalyzed ==
    /\ chartpc = "done"
    /\ chartInvoked # {}
    /\ chartResult.patterns # <<>>

(***************************************************************************)
(* C17: in live mode at most one captureAndAnalyze run is in flight at any *)
(* time: a tick that fires while an earlier analysis has not completed     *)
(* starts no new one.                                                      *)
(***************************************************************************)
C17_AtMostOneInFlight == Cardinality(runs) <= 1

(***************************************************************************)
(* C18: processImage never throws or rejects.  When the image is smaller   *)
(* than 200 px in width or height, when there is no canvas context, when   *)
(* the image fails to load or when processing raises an exception, it      *)
(* resolves with success = false, a non-empty error and data equal to the  *)
(* original URL; only a successful run returns data different from the     *)
(* input.                                                                  *)
(***************************************************************************)
ProcessFailureCase(img) ==
    \/ img.width < 200
    \/ img.height < 200
    \/ ~img.context
    \/ img.load # "load"
    \/ img.processing = "throws"

C18_ProcessImageNeverFails ==
    ppc = "done" =>
        /\ pResult.settled = "resolved"
        /\ ProcessFailureCase(pImage) =>
              /\ pResult.success = FALSE
              /\ pResult.error # ""
              /\ pResult.data = pImage.url
        /\ pResult.data # pImage.url => pResult.success = TRUE

C18_Witness ==
    /\ ppc = "done"
    /\ pImage.load = "load" /\ pImage.context /\ pImage.processing = "ok"
    /\ pImage.width = 199 /\ pImage.height = 640
    /\ pResult.success = FALSE /\ pResult.data = pImage.url

C18_WitnessLoadFails ==
    /\ ppc = "done"
    /\ pImage.load = "error" /\ pImage.width = 640 /\ pImage.height = 640
    /\ pResult.success = FALSE /\ pResult.error # ""

C18_WitnessSuccess ==
    /\ ppc = "done"
    /\ ~ProcessFailureCase(pImage)
    /\ pResult.success = TRUE /\ pResult.data # pImage.url

(***************************************************************************)
(* C19: enhanceEdges returns a new buffer in which every pixel of row 0,   *)
(* of the last row, of column 0 and of the last column equals the input    *)
(* pixel, every interior pixel whose red-channel Sobel magnitude           *)
(* sqrt(gx^2 + gy^2), gx and gy each divided by 4, exceeds 25 is           *)
(* (255,255,255,255), and every other interior pixel equals the input in   *)
(* all four channels; the input buffer is unchanged and equal inputs give  *)
(* equal outputs.                                                          *)
(***************************************************************************)
RedAt(x, y) == eInput[y * eW + x][1]

\* 4 * gx and 4 * gy of the Sobel operator at an interior pixel
Gx4At(x, y) ==
    (RedAt(x + 1, y - 1) + 2 * RedAt(x + 1, y) + RedAt(x + 1, y + 1))
    - (RedAt(x - 1, y - 1) + 2 * RedAt(x - 1, y) + RedAt(x - 1, y + 1))

Gy4At(x, y) ==
    (RedAt(x - 1, y + 1) + 2 * RedAt(x, y + 1) + RedAt(x + 1, y + 1))
    - (RedAt(x - 1, y - 1) + 2 * RedAt(x, y - 1) + RedAt(x + 1, y - 1))

\* sqrt((gx4/4)^2 + (gy4/4)^2) > 25
MagnitudeExceeds25(x, y) == Gx4At(x, y) * Gx4At(x, y) + Gy4At(x, y) * Gy4At(x, y) > 10000

OnBorder(x, y) == x = 0 \/ y = 0 \/ x = eW - 1 \/ y = eH - 1

C19_EdgesEnhanced ==
    epc \in {"once", "twice"} =>
        /\ eData = eInput
        /\ \A k \in 1..Len(eOutputs) :
              /\ DOMAIN eOutputs[k] = DOMAIN eInput
              /\ \A x \in 0..(eW - 1), y \in 0..(eH - 1) :
                    eOutputs[k][y * eW + x] =
                        IF ~OnBorder(x, y) /\ MagnitudeExceeds25(x, y)
                        THEN <<255, 255, 255, 255>>
                        ELSE eInput[y * eW + x]
        /\ \A j, k \in 1..Len(eOutputs) : eOutputs[j] = eOutputs[k]

\* two interior pixels, one turned white and one on the threshold and kept,
\* after two calls
C19_Witness ==
    /\ epc = "twice"
    /\ \E x1, x2 \in 1..(eW - 2), y1, y2 \in 1..(eH - 2) :
          /\ MagnitudeExceeds25(x1, y1)
          /\ eOutputs[2][y1 * eW + x1] = <<255, 255, 255, 255>>
          /\ eInput[y1 * eW + x1] # <<255, 255, 255, 255>>
          /\ ~MagnitudeExceeds25(x2, y2)
          /\ eOutputs[2][y2 * eW + x2] = eInput[y2 * eW + x2]

C19_WitnessOnThreshold ==
    /\ epc = "once"
    /\ eW = 3 /\ eH = 3
    /\ Gx4At(1, 1) * Gx4At(1, 1) + Gy4At(1, 1) * Gy4At(1, 1) = 10000
    /\ eOutputs[1][4] = eInput[4]

C19_WitnessNoInterior ==
    /\ epc = "once"
    /\ eW = 2 /\ eH = 4
    /\ eOutputs[1] = eInput

(***************************************************************************)
(* C20: detectSupportResistanceLines accepts a row as a line exactly when  *)
(* its smoothed dark-pixel density exceeds 20% of the image width, is      *)
(* strictly greater than the smoothed density of the rows at distance 1    *)
(* and 2 above and below it (rows 0, 1, height-2 and height-1 have no such *)
(* four rows and are never accepted), and the row is at least              *)
(* ceil(3% of height) rows away from every row accepted before it in the   *)
(* scan from the top; any two returned lines are at least that far apart.  *)
(***************************************************************************)
\* the dark pixels of row y; the smoothed density of a row is their sum over
\* the rows of its window that exist, divided by the number of those rows
RowDark(y) == DarkCountOf(lImage, y)

WindowOf(y) == {r \in (y - 2)..(y + 2) : r \in 0..(lImage.height - 1)}

RECURSIVE RowDarkSum(_)
RowDarkSum(rows) ==
    IF rows = {} THEN 0
    ELSE LET r == CHOOSE q \in rows : TRUE IN RowDark(r) + RowDarkSum(rows \ {r})

\* smoothed(a) > smoothed(b)
SmoothedAbove(a, b) ==
    RowDarkSum(WindowOf(a)) * Cardinality(WindowOf(b))
        > RowDarkSum(WindowOf(b)) * Cardinality(WindowOf(a))

RowQualifies(y) ==
    /\ {y - 2, y - 1, y + 1, y + 2} \subseteq 0..(lImage.height - 1)
    /\ 100 * RowDarkSum(WindowOf(y)) > 20 * lImage.width * Cardinality(WindowOf(y))
    /\ \A d \in {-2, -1, 1, 2} : SmoothedAbove(y, y + d)

\* ceil(3 * height / 100)
Spacing == CHOOSE d \in 0..lImage.height : 100 * d >= 3 * lImage.height /\ 100 * (d - 1) < 3 * lImage.height

Distance(a, b) == IF a >= b THEN a - b ELSE b - a

LineRows == {lLines[i].startY : i \in 1..Len(lLines)}

C20_LinesAreSpacedPeaks ==
    lpc = "done" =>
        /\ \A i, j \in 1..Len(lLines) : i < j => lLines[i].startY < lLines[j].startY
        /\ \A y \in 0..(lImage.height - 1) :
              y \in LineRows <=>
                  /\ RowQualifies(y)
                  /\ \A earlier \in LineRows : earlier < y => Distance(earlier, y) >= Spacing
        /\ \A a, b \in LineRows : a # b => Distance(a, b) >= Spacing
        /\ \A i \in 1..Len(lLines) :
              /\ lLines[i].startX = 0 /\ lLines[i].endX = lImage.width - 1
              /\ lLines[i].endY = lLines[i].startY

\* a qualifying row with the higher density dropped for being 3 rows below an
\* accepted one when the spacing is 4
C20_Witness ==
    /\ lpc = "done"
    /\ lImage.height = 101
    /\ \E y \in LineRows :
          /\ RowQualifies(y + 3)
          /\ SmoothedAbove(y + 3, y)
          /\ (y + 3) \notin LineRows

\* the same rows both accepted when the spacing is 3
C20_WitnessExactlySpaced ==
    /\ lpc = "done"
    /\ lImage.height = 100
    /\ \E y \in LineRows : (y + 3) \in LineRows

\* dark rows at the top edge only: no line
C20_WitnessEdgeRows ==
    /\ lpc = "done"
    /\ lImage.height = 7
    /\ RowDark(0) = 5 /\ RowDark(1) = 5 /\ RowDark(2) = 0
    /\ lLines = <<>>

(***************************************************************************)
(* Rejection reasons, validity and trend direction of a full evaluation    *)
(***************************************************************************)

\* the four gates' reasons in the order of the checks
GateReasons ==
    << "Candle de confirmacao fraco ou ausente",
       "Candles de indecisao detectados (pavios dos dois lados)",
       "Sem espaco suficiente para o preco correr",
       "Sinal contra a tendencia principal" >>

\* the signal follows the reported trend
Aligned ==
    \/ validation.trendDirection = "alta" /\ signal = "compra"
    \/ validation.trendDirection = "baixa" /\ signal = "venda"

\* gate g of the record failed
GateFailed(g) ==
    CASE g = 1 -> ~validation.strongCandleConfirmation
      [] g = 2 -> validation.indecisionCandles
      [] g = 3 -> ~validation.spaceToRun
      [] g = 4 -> ~Aligned

\* C24: on a full evaluation rejectionReasons holds exactly one entry per
\* failed gate (strong confirmation absent, indecision present, insufficient
\* space, signal against trend), in that order, without duplicates; its
\* length is the number of failed gates, between 0 and 4.
C24_OneReasonPerFailedGate ==
    FullEvaluation =>
        LET rs == validation.rejectionReasons
            IndexOf(r) == CHOOSE g \in 1..4 : GateReasons[g] = r
        IN  /\ Len(rs) \in 0..4
            /\ Len(rs) = Cardinality({g \in 1..4 : GateFailed(g)})
            /\ \A i \in 1..Len(rs) : \E g \in 1..4 : rs[i] = GateReasons[g]
            /\ \A g \in 1..4 :
                  Cardinality({i \in 1..Len(rs) : rs[i] = GateReasons[g]})
                      = (IF GateFailed(g) THEN 1 ELSE 0)
            /\ \A i, j \in 1..Len(rs) : i < j => IndexOf(rs[i]) < IndexOf(rs[j])

\* all four gates failed at once
C24_Witness ==
    /\ FullEvaluation
    /\ \A g \in 1..4 : GateFailed(g)
    /\ validation.rejectionReasons = GateReasons

\* no gate failed
C24_WitnessNone ==
    /\ FullEvaluation
    /\ \A g \in 1..4 : ~GateFailed(g)
    /\ validation.rejectionReasons = <<>>

\* only the second and the fourth gate failed
C24_WitnessTwo ==
    /\ FullEvaluation
    /\ {g \in 1..4 : GateFailed(g)} = {2, 4}
    /\ Len(validation.rejectionReasons) = 2

\* C25: isValidForEntry is true exactly when the recommendation is Enter;
\* Enter implies strong confirmation, no indecision, space to run, a signal
\* aligned with the trend, at least one of pullback, support/resistance
\* level and volume confirmation, and a reported score of at least 75.
C25_ValidIffEnter ==
    m1pc = "done" =>
        /\ validation.isValidForEntry <=> validation.recommendation = "enter"
        /\ validation.recommendation = "enter" =>
              /\ validation.strongCandleConfirmation
              /\ ~validation.indecisionCandles
              /\ validation.spaceToRun
              /\ Aligned
              /\ \/ validation.pullbackDetected
                 \/ validation.supportResistanceLevel
                 \/ validation.volumeConfirmation
              /\ validation.contextScore >= 75

\* Enter at the smallest score, volume confirmation being the only bonus
C25_Witness ==
    /\ FullEvaluation
    /\ validation.recommendation = "enter"
    /\ validation.isValidForEntry
    /\ validation.contextScore = 75
    /\ ~validation.pullbackDetected
    /\ ~validation.supportResistanceLevel

\* every gate passed and no bonus: 60 points, not an entry
C25_WitnessNoBonus ==
    /\ FullEvaluation
    /\ validation.rejectionReasons = <<>>
    /\ validation.contextScore = 60
    /\ validation.recommendation = "wait"
    /\ ~validation.isValidForEntry

\* C26: whenever the trend of the 10-candle window is not Flat its direction
\* agrees with the sign of the change of the close: Up if the last close is
\* above the first, Down if below, a rise of exactly 0.05% included.
C26_DirectionFollowsChange ==
    FullEvaluation =>
        LET n == Len(candles)
            firstClose == candles[n - 9].close
            lastClose == candles[n].close
        IN  /\ lastClose > firstClose => validation.trendDirection = "alta"
            /\ lastClose < firstClose => validation.trendDirection = "baixa"

\* a candle as estimateOHLCValues prices it: no wick on either side
WicklessCandle(candle) ==
    /\ candle.high = (IF candle.open > candle.close THEN candle.open ELSE candle.close)
    /\ candle.low = (IF candle.open < candle.close THEN candle.open ELSE candle.close)

Wickless == \A i \in 1..Len(candles) : WicklessCandle(candles[i])

\* C30: for 20 or more candles of the kind estimateOHLCValues produces
\* (high = max(open, close), low = min(open, close), both wicks zero) a full
\* evaluation never reports indecision and never applies the -30 penalty.
C30_NoIndecisionWithoutWicks ==
    (FullEvaluation /\ Wickless) =>
        /\ ~validation.indecisionCandles
        /\ "Candles de indecisao detectados (pavios dos dois lados)"
               \notin {validation.rejectionReasons[i] : i \in 1..Len(validation.rejectionReasons)}
        /\ RawScore(candles, signal, volumeData, confluences) =
               25 + (IF validation.pullbackDetected THEN 20 ELSE 0)
                  + (IF validation.strongCandleConfirmation THEN 25 ELSE 0)
                  + (IF validation.supportResistanceLevel THEN 20 ELSE 0)
                  + (IF validation.volumeConfirmation THEN 15 ELSE 0)
                  - (IF validation.spaceToRun THEN 0 ELSE 25)
                  + (IF Aligned THEN 10 ELSE -20)

\* wickless candles with two flat ones (open = close) among the last three
C30_Witness ==
    /\ FullEvaluation
    /\ Wickless
    /\ Len(candles) = 25
    /\ candles[24].open = candles[24].close
    /\ candles[25].open = candles[25].close
    /\ ~validation.indecisionCandles

(***************************************************************************)
(* The price band of estimateOHLCValues                                    *)
(***************************************************************************)

\* a = b on doubles
PriceEq(a, b) == PriceGeq(a, b) /\ PriceGeq(b, a)

\* a > b on doubles
PriceGreater(a, b) == PriceGeq(a, b) /\ ~PriceGeq(b, a)

InBand(p) == PriceGeq(p, Price(100, 1)) /\ PriceLeq(p, Price(120, 1))

\* C23: after estimateOHLCValues all four prices of every candle lie in
\* [100,120]; the candle with the topmost top edge has high = 120 and the
\* one with the lowest bottom edge has low = 100; a candle whose top edge
\* has the smaller y than another's has the strictly higher high; bullish
\* candles have open = low and close = high, bearish ones open = high and
\* close = low.
C23_PriceBand ==
    (ohlcpc = "done" /\ Len(ohlcCandles) >= 1) =>
        LET idx == 1..Len(ohlcCandles)
            minTop2 == MinOf({CandleTop2(ohlcCandles[i]) : i \in idx})
            maxBottom2 == MaxOf({CandleBottom2(ohlcCandles[i]) : i \in idx})
        IN  /\ \A i \in idx :
                  LET c == ohlcCandles[i]
                  IN  /\ InBand(c.open) /\ InBand(c.high) /\ InBand(c.low) /\ InBand(c.close)
                      /\ CandleTop2(c) = minTop2 => PriceEq(c.high, Price(120, 1))
                      /\ CandleBottom2(c) = maxBottom2 => PriceEq(c.low, Price(100, 1))
                      /\ IF c.color = "verde"
                         THEN PriceEq(c.open, c.low) /\ PriceEq(c.close, c.high)
                         ELSE PriceEq(c.open, c.high) /\ PriceEq(c.close, c.low)
            /\ \A i, j \in idx :
                  CandleTop2(ohlcCandles[i]) < CandleTop2(ohlcCandles[j])
                      => PriceGreater(ohlcCandles[i].high, ohlcCandles[j].high)

\* three candles with three different top edges, a bullish one in the
\* middle of the band touching neither 100 nor 120
C23_Witness ==
    /\ ohlcpc = "done"
    /\ Len(ohlcCandles) = 3
    /\ \E i, j, k \in 1..3 :
          /\ CandleTop2(ohlcCandles[i]) < CandleTop2(ohlcCandles[j])
          /\ CandleTop2(ohlcCandles[j]) < CandleTop2(ohlcCandles[k])
          /\ CandleBottom2(ohlcCandles[j]) < CandleBottom2(ohlcCandles[k])
          /\ ohlcCandles[j].color = "verde"
          /\ ohlcCandles[k].color = "vermelho"
          /\ PriceGreater(Price(120, 1), ohlcCandles[j].high)
          /\ PriceGreater(ohlcCandles[j].low, Price(100, 1))
          /\ PriceEq(ohlcCandles[i].high, Price(120, 1))
          /\ PriceEq(ohlcCandles[k].low, Price(100, 1))

\* a single candle spans the whole band
C23_WitnessSingle ==
    /\ ohlcpc = "done"
    /\ Len(ohlcCandles) = 1
    /\ PriceEq(ohlcCandles[1].high, Price(120, 1))
    /\ PriceEq(ohlcCandles[1].low, Price(100, 1))

(***************************************************************************)
(* Acceptance, colour and confidence of analyzeCandleSegment               *)
(***************************************************************************)

BoxColored == boxCase.green + boxCase.red + boxCase.black + boxCase.white

\* the counts after folding dark into bearish and light into bullish
BoxBearish ==
    IF boxCase.black > boxCase.red THEN boxCase.red + boxCase.black ELSE boxCase.red

BoxBullish ==
    IF boxCase.white > boxCase.green THEN boxCase.green + boxCase.white ELSE boxCase.green

BoxDominant == IF BoxBullish > BoxBearish THEN BoxBullish ELSE BoxBearish

\* min(100, round(dominant / colored * colored / (width * height) * 100))
BoxConfidence ==
    Min(100, RoundDiv(100 * BoxDominant * BoxColored, BoxColored * boxCase.w * boxCase.h))

\* C22: analyzeCandleSegment rejects a segment iff its height/width ratio is
\* below 0.8, or the box holds fewer than 5 classified pixels, or the
\* confidence is below 20; otherwise it reports Bullish when the folded
\* bullish count is strictly larger and Bearish otherwise (ties included),
\* with confidence min(100, round(dominant/colored * colored/(w*h) * 100)),
\* which lies in [20,100].
C22_AnalyzeRule ==
    boxpc = "done" =>
        LET rejected == \/ 5 * boxCase.h < 4 * boxCase.w
                        \/ BoxColored < 5
                        \/ BoxConfidence < 20
        IN  /\ boxResult.accepted <=> ~rejected
            /\ boxResult.accepted =>
                  /\ boxResult.color = (IF BoxBullish > BoxBearish THEN "verde" ELSE "vermelho")
                  /\ boxResult.confidence = BoxConfidence
                  /\ boxResult.confidence \in 20..100

\* a tie of the folded counts on a box of ratio exactly 0.8: Bearish
C22_Witness ==
    /\ boxpc = "done"
    /\ boxCase.w = 5 /\ boxCase.h = 4
    /\ BoxBullish = BoxBearish
    /\ boxCase.white > boxCase.green
    /\ boxResult.accepted
    /\ boxResult.color = "vermelho"

\* accepted with confidence exactly 20
C22_WitnessLowest ==
    /\ boxpc = "done"
    /\ boxResult.accepted
    /\ boxResult.confidence = 20

\* five classified pixels and more, yet rejected for a confidence of 15
C22_WitnessLowConfidence ==
    /\ boxpc = "done"
    /\ 5 * boxCase.h >= 4 * boxCase.w
    /\ BoxColored >= 5
    /\ BoxConfidence = 15
    /\ ~boxResult.accepted

\* dark pixels outnumbering red ones turn a green majority into Bearish
C22_WitnessFolded ==
    /\ boxpc = "done"
    /\ boxCase.green > boxCase.red
    /\ boxCase.green > boxCase.black
    /\ boxCase.black > boxCase.red
    /\ boxResult.accepted
    /\ boxResult.color = "vermelho"

\* a full box of one colour on a box of ratio 0.75: rejected
C22_WitnessFlat ==
    /\ boxpc = "done"
    /\ boxCase.w = 4 /\ boxCase.h = 3
    /\ boxCase.green = 12
    /\ ~boxResult.accepted

(***************************************************************************)
(* validateM1Context across calls                                          *)
(***************************************************************************)

InFlight(id) == \E run \in runs : run.id = id

\* C27: every captureAndAnalyze run that sets isAnalyzing true sets it back
\* to false on every exit path (ctx unavailable, no chart, an exception
\* during enhancement or analysis, completion): a run in flight returns, the
\* step in which a run returns commits isAnalyzing = false, and isAnalyzing
\* never stays true for ever.
C27_AnalyzingEnds ==
    /\ [][lastEnd' # lastEnd => ~isAnalyzing']_vars
    /\ \A id \in 1..MaxRuns : InFlight(id) ~> (~InFlight(id))
    /\ isAnalyzing ~> ~isAnalyzing

\* a run that failed on the way has returned and the flag is down
C27_Witness ==
    /\ lastEnd.outcome = "failed"
    /\ ~InFlight(lastEnd.id)
    /\ runs = {}
    /\ ~isAnalyzing

C27_WitnessNoContext == lastEnd.outcome = "noContext" /\ ~isAnalyzing

C27_WitnessNoChart == lastEnd.outcome = "noChart" /\ ~isAnalyzing

C27_WitnessCompleted == lastEnd.outcome = "completed" /\ ~isAnalyzing

\* C28: liveResults holds at most 20 entries, newest first: an analysis
\* completing with a chart prepends exactly one entry and drops only the
\* oldest when the list is full; a frame without a chart adds none and
\* clears currentAnalysis; nothing else changes the list.
C28_ResultsBounded ==
    /\ [](Len(liveResults) <= 20)
    /\ [][ IF lastEnd' # lastEnd /\ lastEnd'.outcome = "completed"
           THEN liveResults' = <<lastEnd'.id>> \o
                    (IF Len(liveResults) = 20 THEN SubSeq(liveResults, 1, 19) ELSE liveResults)
           ELSE /\ liveResults' = liveResults
                /\ (lastEnd' # lastEnd /\ lastEnd'.outcome = "noChart") => currentAnalysis' = 0
         ]_vars

\* a completed analysis on top of a full list: the oldest entry (101) is gone
C28_Witness ==
    /\ lastEnd.outcome = "completed"
    /\ Len(liveResults) = 20
    /\ liveResults[1] = lastEnd.id
    /\ liveResults[2] = 120
    /\ liveResults[20] = 102

\* a frame without a chart after a completed analysis
C28_WitnessNoChart ==
    /\ lastEnd.outcome = "noChart"
    /\ Len(liveResults) = 20
    /\ liveResults[1] \in 1..MaxRuns
    /\ liveResults[1] # lastEnd.id
    /\ currentAnalysis = 0

\* C29: after stopLiveAnalysis returned, and until the next
\* startLiveAnalysis, no capture interval is armed (so no captureAndAnalyze
\* run is started), whenever the stop came; at most one capture interval is
\* armed at any time.
C29_StopDisarms ==
    /\ (~isLiveActive /\ cameraPending = {}) => intervals = {}
    /\ Cardinality(intervals) <= 1

====
